---- MODULE Spec2Model ----
(***************************************************************************)
(* The descriptor table, the open file objects (KFile) with their          *)
(* deferred-unlink path, and the syscall handlers of kernel/src/fs/mod.rs  *)
(* that open, close, duplicate and unlink files, over a small VFS          *)
(* namespace.  Every VFS call a handler makes is recorded, in order, in    *)
(* the record of the handler's execution.                                  *)
(***************************************************************************)
EXTENDS Integers, Sequences, FiniteSets, TLC

\* ------------------------------------------------------------- bounds
\* capacity of the descriptor table: handles are 0 .. MaxFd-1
MaxFd == 2
\* largest file position a write may reach
MaxPos == 2
\* largest fragment of a user buffer
MaxFrag == 1
\* width of a machine word (usize, isize) in bits, scaled down
WordBits == 4

\* ---------------------------------------------------------- constants
\* kernel/src/fs/mod.rs: pub const AT_FDCWD
AT_FDCWD == -100

\* offset as usize, fd as usize, and the signed reading of a word (as i64)
Word == 2 ^ WordBits
as_usize(x) == x % Word
as_signed(u) == IF u >= Word \div 2 THEN u - Word ELSE u

None == 0
NoFile == "nofile"
NoPath == "nopath"
PathErr == "err"

\* the files of the VFS and the directory entries naming them
Files == {"f1", "f2"}
Entries == {"/a", "/b"}
\* the path strings a caller may pass: absolute ones (one file under two
\* spellings) and a relative one
AbsPaths == {"/a", "/./a", "/b"}
RelPaths == {"a"}
RawPaths == AbsPaths \cup RelPaths
\* the directory entry a path string denotes (the VFS walks the string)
Canon(p) ==
  CASE p \in {"/a", "/./a", "a"} -> "/a"
    [] p \in {"/b"} -> "/b"

Handles == 0 .. (MaxFd - 1)
\* identities of the open file objects (Arc<KFile>) alive at one time; a
\* live object is named by the lowest handle that references it, plus one
Objs == 1 .. MaxFd
Threads == {1, 2}

VARIABLES
  fd_table,   \* the process's descriptor table: handle -> object id, None if free
  kfile,      \* the open file objects: id -> [file, unlink, unlinked]
  names,      \* the VFS directory: entry -> file, NoFile if absent
  f_pos,      \* the position of each VFS file
  last,       \* the most recent handler execution: VFS calls in order, result
  pc,         \* per thread: where it is in sys_write
  loc,        \* per thread: the locals of its sys_write
  data,       \* the bytes of each VFS file
  io,         \* the most recent read, write or seek handler execution
  resolved,   \* the flag argument and the resolver calls of the most recent
              \* path handler execution
  fs_info,    \* the process's stored working directory: [cwd, cmnt]
  fault,      \* the most recent page-fault handler execution
  sound,      \* SOUND_DEVICE and the init_sound calls in progress
  xattr       \* the length of each VFS file's extended attribute, -1 if none

vars == <<fd_table, kfile, names, f_pos, last, pc, loc, data, io, resolved,
          fs_info, fault, sound, xattr>>

\* the state outside the file system call layer's tables and files
env == <<fs_info, fault, sound, xattr>>

Min(S) == CHOOSE x \in S : \A y \in S : x <= y
Max(S) == CHOOSE x \in S : \A y \in S : x >= y

\* ------------------------------------------------- descriptor table
\* task.get_file(fd): the object behind a handle, None when there is none
get_file(fd) == IF fd \in Handles THEN fd_table[fd] ELSE None

FreeHandles == {h \in Handles : fd_table[h] = None}

\* add_file storing the object under the largest free handle
add_file_largest == IF FreeHandles = {} THEN -1 ELSE Max(FreeHandles)

\* task.add_file(obj): the handle the object is stored under, -1 when the
\* table is full
add_file == IF FreeHandles = {} THEN -1 ELSE Min(FreeHandles)

\* the handles of a table that reference object o
HandlesOf(tbl, o) == {h \in Handles : tbl[h] = o}

\* Arc::new(FileLike::NormalFile(KFile::new(file))): a fresh object identity
NewObj == Min({o \in Objs : HandlesOf(fd_table, o) = {}})

\* KFile::new(file): no pending path; unlinked notes whether a VFS unlink
\* was already requested for the object's pending path
KFileNew(f) == [file |-> f, unlink |-> NoPath, unlinked |-> FALSE]

\* task.file_existed(file): the first object of the table that wraps the
\* VFS file, None when no live object does
file_existed(f) ==
  LET hs == {h \in Handles : fd_table[h] # None /\ kfile[fd_table[h]].file = f}
  IN IF hs = {} THEN None ELSE fd_table[Min(hs)]

\* KFile::set_unlink(path), is_unlink(), unlink_path()
set_unlink(k, path) == [k EXCEPT !.unlink = path]
is_unlink(k) == k.unlink # NoPath

\* the name of a live object o of table tbl
Leader(tbl, o) == Min(HandlesOf(tbl, o)) + 1
NameOf(tbl, o) == IF o = None \/ HandlesOf(tbl, o) = {} THEN None ELSE Leader(tbl, o)
\* the table and the objects under those names; an object no handle
\* references is destroyed (Arc drop)
NameTable(tbl) == [h \in Handles |-> NameOf(tbl, tbl[h])]
NameFiles(tbl, kf) ==
  [n \in Objs |->
     IF \E o \in Objs : NameOf(tbl, o) = n
     THEN kf[CHOOSE o \in Objs : NameOf(tbl, o) = n]
     ELSE KFileNew(NoFile)]

\* ---------------------------------------------------------- the VFS
VfsCall(c, a, ok) == [call |-> c, arg |-> a, ok |-> ok]

\* vfs_open_file(path, ..): the file the path names
vfs_open_ok(path, devOk) == devOk /\ names[Canon(path)] # NoFile
\* vfs_unlink(path): removes the directory entry the path names
vfs_unlink_ok(path, devOk) == devOk /\ names[Canon(path)] # NoFile

UnlinkCallsIn(calls) ==
  {i \in 1 .. Len(calls) : calls[i].call = "vfs_unlink"}

\* the directory after the VFS calls of a handler
names_after(calls) ==
  IF \E i \in UnlinkCallsIn(calls) : calls[i].ok
  THEN LET i == CHOOSE j \in UnlinkCallsIn(calls) : calls[j].ok
       IN [names EXCEPT ![Canon(calls[i].arg)] = NoFile]
  ELSE names

\* ---------------------------------------------------- path resolver
is_relative(raw) == raw \in RelPaths

\* user_path_at looking the descriptor up before it looks at the path
user_path_at_fd_first(fd, raw, lk) ==
  IF fd # AT_FDCWD /\ get_file(as_usize(fd)) = None THEN PathErr
  ELSE IF is_relative(raw) THEN (IF lk THEN Canon(raw) ELSE PathErr)
  ELSE raw

\* user_path_at(fd, path, flag): the resolved path, PathErr on failure;
\* lk is the outcome of the VFS's vfs_lookup_path
user_path_at(fd, raw, lk) ==
  IF is_relative(raw)
  THEN IF fd = AT_FDCWD
       THEN (IF lk THEN Canon(raw) ELSE PathErr)
       ELSE IF get_file(as_usize(fd)) = None
            THEN PathErr
            ELSE (IF lk THEN Canon(raw) ELSE PathErr)
  ELSE raw

\* the directory descriptors a caller passes: the cwd sentinel and a handle
DirFds == {AT_FDCWD, 0}

\* ------------------------------------------------------------- Init
\* no read, write or seek handler has run
NoRt == [stage |-> 0, fd |-> None, bytes |-> <<>>]
NoSk == [fd |-> None, k |-> -1]
NoIo == [op |-> "none", fd |-> None, whence |-> 0, arg |-> 0, p0 |-> 0,
         ret |-> 0, xfers |-> <<>>, got |-> <<>>, failed |-> FALSE,
         rt |-> NoRt, sk |-> NoSk, iov |-> <<>>]

NoRes == [flag |-> {}, rs |-> <<>>, data_empty |-> TRUE]

\* the root directory as the working directory, no page fault handled yet,
\* SOUND_DEVICE not initialized and no init_sound call in progress
NoFault == [trap |-> "none", info |-> "none", file |-> NoFile, len |-> 0,
            offset |-> 0, consulted |-> FALSE, reads |-> <<>>, ret |-> "Ok"]

NoSound == [status |-> "Incomplete", value |-> None,
            call |-> [t \in Threads |-> [pc |-> "idle", dev |-> None]],
            first |-> None]

EnvInit ==
  /\ fs_info = [cwd |-> "/", cmnt |-> "m0"]
  /\ fault = NoFault
  /\ sound = NoSound
  /\ xattr = [f \in Files |-> -1]

NoLoc == [file |-> NoFile, start |-> 0, offset |-> 0, count |-> 0,
          frags |-> <<>>, ret |-> 0]

Init ==
  /\ fd_table = [h \in Handles |-> None]
  /\ kfile = [o \in Objs |-> KFileNew(NoFile)]
  /\ names = [e \in Entries |-> IF e = "/a" THEN "f1" ELSE "f2"]
  /\ f_pos = [f \in Files |-> 0]
  /\ last = [op |-> "init", fd |-> None, path |-> NoPath, obj |-> None,
             ret |-> 0, calls |-> <<>>, shared |-> FALSE, prior |-> FALSE]
  /\ pc = [t \in Threads |-> "idle"]
  /\ loc = [t \in Threads |-> NoLoc]
  /\ data = [f \in Files |-> <<>>]
  /\ io = NoIo
  /\ resolved = NoRes
  /\ EnvInit

\* the record of a handler's execution: the handle it was given (close, dup),
\* the path it resolved (openat, unlinkat) or found pending on the object
\* (close), the object it acted on, its result, its VFS calls in order,
\* whether a handle references the object when it returns (close, unlinkat),
\* and whether a VFS unlink had been requested for the object before
Record(op, fd, path, obj, ret, calls, shared, prior) ==
  last' = [op |-> op, fd |-> fd, path |-> path, obj |-> obj, ret |-> ret,
           calls |-> calls, shared |-> shared, prior |-> prior]

\* --------------------------------------------------------- sys_openat
\* sys_openat returning the success code instead of the handle
openat_ret_zero(fd) == IF fd < 0 THEN -1 ELSE 0

\* the value sys_openat returns for the result of add_file
openat_ret(fd) == IF fd < 0 THEN -1 ELSE fd

\* sys_openat with recognized open flags: resolve the path, open it through
\* the VFS, wrap the file in a new object and add it to the table.  fail is
\* the VFS call that fails, if any

\* sys_openat going on to add_file after a VFS open that failed
openat_adds_unopened(resolved_ok, opened, fd) == resolved_ok /\ fd >= 0

\* whether sys_openat leaves an entry in the table: the path resolved, the
\* VFS opened the file and add_file found a free handle
openat_adds(resolved_ok, opened, fd) == resolved_ok /\ opened /\ fd >= 0

SysOpenat(dirfd, raw, fail) ==
  LET path == user_path_at(dirfd, raw, fail # "lookup")
      ok == path # PathErr /\ vfs_open_ok(path, fail # "open")
      calls == IF path = PathErr THEN <<>>
               ELSE <<VfsCall("vfs_open_file", path, ok)>>
      fd == add_file
  IN IF openat_adds(path # PathErr, ok, fd)
     THEN LET tbl == [fd_table EXCEPT ![fd] = NewObj]
              kf == [kfile EXCEPT ![NewObj] = KFileNew(names[Canon(path)])]
          IN /\ fd_table' = NameTable(tbl)
             /\ kfile' = NameFiles(tbl, kf)
             /\ Record("openat", None, path, NameOf(tbl, NewObj), openat_ret(fd),
                       calls, FALSE, FALSE)
          /\ UNCHANGED <<names, f_pos, pc, loc>>
     ELSE /\ Record("openat", None, path, None, -1, calls, FALSE, FALSE)
          /\ UNCHANGED <<kfile, fd_table, names, f_pos, pc, loc>>

\* ---------------------------------------------------------- sys_close
\* sys_close unlinking the pending path before it closes the file
close_calls_unlink_first(k, closeOk, unlinkDev) ==
  (IF is_unlink(k)
   THEN <<VfsCall("vfs_unlink", k.unlink, vfs_unlink_ok(k.unlink, unlinkDev))>>
   ELSE <<>>) \o
  <<VfsCall("vfs_close_file", k.file, closeOk)>>

\* the VFS calls sys_close makes, in order, for the object k it removed
close_calls(k, closeOk, unlinkDev) ==
  <<VfsCall("vfs_close_file", k.file, closeOk)>> \o
  (IF is_unlink(k)
   THEN <<VfsCall("vfs_unlink", k.unlink, vfs_unlink_ok(k.unlink, unlinkDev))>>
   ELSE <<>>)

\* the value sys_close returns after these calls
close_ret(calls) ==
  IF \E i \in UnlinkCallsIn(calls) : ~calls[i].ok THEN -1 ELSE 0

\* sys_close: remove the handle, close the file through the VFS (the result
\* is dropped), then unlink the pending path if the object has one
SysCloseTable(fd, closeOk, unlinkDev) ==
  LET o == get_file(fd)
  IN IF o = None
     THEN /\ Record("close", fd, NoPath, None, -1, <<>>, FALSE, FALSE)
          /\ UNCHANGED <<fd_table, kfile, names, f_pos>>
     ELSE LET calls == close_calls(kfile[o], closeOk, unlinkDev)
              tbl == [fd_table EXCEPT ![fd] = None]
              kf == [kfile EXCEPT ![o].unlinked = @ \/ UnlinkCallsIn(calls) # {}]
          IN /\ fd_table' = NameTable(tbl)
             /\ names' = names_after(calls)
             /\ kfile' = NameFiles(tbl, kf)
             /\ Record("close", fd, kfile[o].unlink, NameOf(tbl, o), close_ret(calls), calls,
                       HandlesOf(tbl, o) # {}, kfile[o].unlinked)
             /\ UNCHANGED f_pos

\* sys_close with no other handler of the process in progress
SysClose(fd, closeOk, unlinkDev) ==
  /\ SysCloseTable(fd, closeOk, unlinkDev)
  /\ UNCHANGED <<pc, loc>>

\* ------------------------------------------------------------ sys_dup
\* a second handle for the object behind fd
SysDup(fd) ==
  LET o == get_file(fd)
      new == add_file
  IN IF o = None \/ new < 0
     THEN /\ Record("dup", fd, NoPath, None, -1, <<>>, FALSE, FALSE)
          /\ UNCHANGED <<fd_table, kfile, names, f_pos, pc, loc>>
     ELSE LET tbl == [fd_table EXCEPT ![new] = o]
          IN /\ fd_table' = NameTable(tbl)
             /\ kfile' = NameFiles(tbl, kfile)
             /\ Record("dup", fd, NoPath, NameOf(tbl, o), new, <<>>, TRUE, FALSE)
             /\ UNCHANGED <<names, f_pos, pc, loc>>

\* ------------------------------------------------------- sys_unlinkat
\* sys_unlinkat unlinking at once, whether or not the file is in use
unlinkat_calls_always(path, openDev, unlinkDev) ==
  IF ~vfs_open_ok(path, openDev)
  THEN <<VfsCall("vfs_open_file", path, FALSE)>>
  ELSE <<VfsCall("vfs_open_file", path, TRUE),
         VfsCall("vfs_unlink", path, vfs_unlink_ok(path, unlinkDev))>>

\* the VFS calls sys_unlinkat makes, in order, for a resolved path
unlinkat_calls(path, openDev, unlinkDev) ==
  IF ~vfs_open_ok(path, openDev)
  THEN <<VfsCall("vfs_open_file", path, FALSE)>>
  ELSE <<VfsCall("vfs_open_file", path, TRUE)>> \o
       (IF file_existed(names[Canon(path)]) # None
        THEN <<>>
        ELSE <<VfsCall("vfs_unlink", path, vfs_unlink_ok(path, unlinkDev))>>)

\* the value sys_unlinkat returns after these calls
unlinkat_ret(calls) ==
  IF \E i \in 1 .. Len(calls) : ~calls[i].ok THEN -1 ELSE 0

\* sys_unlinkat with flag 0: resolve the path, open it to find the file,
\* and either mark the live object that wraps it or unlink at once
SysUnlinkat(dirfd, raw, fail) ==
  LET path == user_path_at(dirfd, raw, fail # "lookup")
  IN IF path = PathErr
     THEN /\ Record("unlinkat", None, PathErr, None, -1, <<>>, FALSE, FALSE)
          /\ UNCHANGED <<fd_table, kfile, names, f_pos, pc, loc>>
     ELSE LET calls == unlinkat_calls(path, fail # "open", fail # "unlink")
              used == IF calls[1].ok THEN file_existed(names[Canon(path)])
                      ELSE None
          IN /\ kfile' = IF used # None
                         THEN [kfile EXCEPT ![used] = set_unlink(@, path)]
                         ELSE kfile
             /\ names' = names_after(calls)
             /\ Record("unlinkat", None, path, used, unlinkat_ret(calls), calls,
                       used # None, FALSE)
             /\ UNCHANGED <<fd_table, f_pos, pc, loc>>

\* ------------------------------------------------------------- Next
\* the arguments of a call that the handler reads: the directory
\* descriptor and the outcome of the lookup matter for a relative path only,
\* the outcome of the VFS unlink when sys_close has a pending path only
PathArgs(fails) ==
  {a \in DirFds \X RawPaths \X fails :
     is_relative(a[2]) \/ (a[1] = AT_FDCWD /\ a[3] # "lookup")}
CloseArgs ==
  {a \in (Handles \cup {MaxFd}) \X BOOLEAN \X BOOLEAN :
     a[3] \/ (get_file(a[1]) # None /\ is_unlink(kfile[get_file(a[1])]))}

Next ==
  \/ /\ \E a \in PathArgs({"none", "lookup", "open"}) : SysOpenat(a[1], a[2], a[3])
     /\ UNCHANGED <<data, io, resolved, env>>
  \/ /\ \E a \in CloseArgs : SysClose(a[1], a[2], a[3])
     /\ UNCHANGED <<data, io, resolved, env>>
  \/ /\ \E fd \in Handles \cup {MaxFd} : SysDup(fd)
     /\ UNCHANGED <<data, io, resolved, env>>
  \/ /\ \E a \in PathArgs({"none", "lookup", "open", "unlink"}) :
          SysUnlinkat(a[1], a[2], a[3])
     /\ UNCHANGED <<data, io, resolved, env>>

Spec == Init /\ [][Next]_vars

\* ---------------------------------------------------------- sys_write
\* sys_write run by a thread of the process, one step for each access to
\* the file object: the handler takes no lock of its own, so the threads
\* of a process interleave between these steps
\* process.transfer_raw_buffer(buf, len): the fragments of the user buffer,
\* by their lengths
FragSeqs == UNION {[1 .. n -> 1 .. MaxFrag] : n \in 0 .. 2}

\* get_file(fd) and the read of the file's position f_pos
WriteBegin(t, fd, frags) ==
  /\ pc[t] = "idle"
  /\ IF get_file(fd) = None
     THEN /\ loc' = [loc EXCEPT ![t] = [NoLoc EXCEPT !.ret = -1]]
          /\ UNCHANGED pc
     ELSE LET f == kfile[get_file(fd)].file
          IN /\ loc' = [loc EXCEPT ![t] =
                          [file |-> f, start |-> f_pos[f], offset |-> f_pos[f],
                           count |-> 0, frags |-> frags, ret |-> 0]]
             /\ pc' = [pc EXCEPT ![t] = "io"]
  /\ UNCHANGED <<fd_table, kfile, names, f_pos, last>>

\* vfs_write_file(file, b, offset): r bytes of the fragment are written at
\* offset and the file's position advances by r
vfs_write_pos(pos, offset, r) == pos + r

\* one turn of the loop over the fragments
WriteFrag(t, r) ==
  /\ pc[t] = "io"
  /\ loc[t].frags # <<>>
  /\ r \in 1 .. Head(loc[t].frags)
  /\ loc[t].offset + r <= MaxPos
  /\ f_pos[loc[t].file] + r <= MaxPos
  /\ f_pos' = [f_pos EXCEPT ![loc[t].file] = vfs_write_pos(@, loc[t].offset, r)]
  /\ loc' = [loc EXCEPT ![t].count = @ + r, ![t].offset = @ + r,
                        ![t].frags = Tail(@)]
  /\ UNCHANGED <<fd_table, kfile, names, last, pc>>

\* the return of the byte count
WriteReturn(t) ==
  /\ pc[t] = "io"
  /\ loc[t].frags = <<>>
  /\ loc' = [loc EXCEPT ![t] = [NoLoc EXCEPT !.ret = loc[t].count]]
  /\ pc' = [pc EXCEPT ![t] = "idle"]
  /\ UNCHANGED <<fd_table, kfile, names, f_pos, last>>

NextConc ==
  \/ /\ \E raw \in Entries : SysOpenat(AT_FDCWD, raw, "none")
     /\ UNCHANGED <<data, io, resolved, env>>
  \/ /\ \E fd \in Handles : SysClose(fd, TRUE, TRUE)
     /\ UNCHANGED <<data, io, resolved, env>>
  \/ /\ \E t \in Threads, fd \in Handles, frags \in FragSeqs : WriteBegin(t, fd, frags)
     /\ UNCHANGED <<data, io, resolved, env>>
  \/ /\ \E t \in Threads, r \in 1 .. MaxFrag : WriteFrag(t, r)
     /\ UNCHANGED <<data, io, resolved, env>>
  \/ /\ \E t \in Threads : WriteReturn(t)
     /\ UNCHANGED <<data, io, resolved, env>>

SpecConc == Init /\ [][NextConc]_vars

\* ------------------------------------- sys_read, sys_write, sys_lseek
\* the handlers run one at a time, each to completion
\* a panic of the kernel (unwrap of an Err, a failed assert), as a result
Panic == -2
\* the kernel runs until a handler panics
Running == last.ret # Panic /\ io.ret # Panic

RECURSIVE SumSeq(_)
SumSeq(q) == IF q = <<>> THEN 0 ELSE Head(q) + SumSeq(Tail(q))

\* process.transfer_raw_buffer(buf, len): a user buffer as fragments of
\* the given lengths; its bytes alternate, starting from seed
UserBuf(seed, frags) ==
  [j \in 1 .. Len(frags) |->
     [k \in 1 .. frags[j] |->
        ((seed + SumSeq(SubSeq(frags, 1, j - 1)) + k) % 2) + 1]]
Flat(bufs) ==
  LET lens == [j \in 1 .. Len(bufs) |-> Len(bufs[j])]
      F[j \in 0 .. Len(bufs)] == IF j = 0 THEN <<>> ELSE F[j - 1] \o bufs[j]
  IN F[Len(bufs)]

\* vfs_read_file(file, b, offset): the count of bytes read into b, up to
\* the end of the file
vfs_read_len(d, offset, len) ==
  IF offset >= Len(d) THEN 0 ELSE Min({len, Len(d) - offset})
vfs_read_bytes(d, offset, len) ==
  SubSeq(d, offset + 1, offset + vfs_read_len(d, offset, len))
\* the file's position advances by the count read
vfs_read_pos(pos, offset, r) == pos + r

\* vfs_write_file(file, b, offset): the count of bytes of b written, up to
\* the capacity of the file
vfs_write_len(offset, len) ==
  IF offset >= MaxPos THEN 0 ELSE Min({len, MaxPos - offset})
vfs_write_data(d, offset, b) ==
  LET r == vfs_write_len(offset, Len(b))
  IN IF r = 0 THEN d
     ELSE [i \in 1 .. Max({Len(d), offset + r}) |->
             IF i > offset /\ i <= offset + r THEN b[i - offset]
             ELSE IF i <= Len(d) THEN d[i] ELSE 0]

\* the handler's local offset left where it was after a fragment
next_offset_same(offset, r, len) == offset

\* the handler's local offset after a fragment, advanced by its length
next_offset_len(offset, r, len) == offset + len

\* offset += r: the handler's local offset after a fragment
next_offset(offset, r, len) == offset + r

\* let mut offset = file.get_file().access_inner().f_pos
rw_start(pos) == pos

\* the locals of the loop over the fragments, and the file it acts on
LoopInit(d, pos, offset) ==
  [d |-> d, pos |-> pos, offset |-> offset, count |-> 0, xfers |-> <<>>,
   got |-> <<>>, n |-> 0, panic |-> FALSE]

\* one turn of buf.iter_mut().for_each(..): the VFS call on fragment b at
\* the local offset, unwrap of its result, count += r, offset += r
rw_frag(kind, st, b, fails) ==
  IF st.panic THEN st
  ELSE IF fails THEN [st EXCEPT !.panic = TRUE, !.n = @ + 1]
  ELSE LET r == IF kind = "read" THEN vfs_read_len(st.d, st.offset, Len(b))
                ELSE vfs_write_len(st.offset, Len(b))
       IN [d |-> IF kind = "read" THEN st.d
                 ELSE vfs_write_data(st.d, st.offset, b),
           pos |-> IF kind = "read" THEN vfs_read_pos(st.pos, st.offset, r)
                   ELSE vfs_write_pos(st.pos, st.offset, r),
           offset |-> next_offset(st.offset, r, Len(b)),
           count |-> st.count + r,
           xfers |-> Append(st.xfers, [off |-> st.offset, len |-> Len(b), r |-> r]),
           got |-> IF kind = "read"
                   THEN st.got \o vfs_read_bytes(st.d, st.offset, Len(b))
                   ELSE st.got,
           n |-> st.n + 1,
           panic |-> FALSE]

\* the loop over the fragments of one buffer; failAt is the VFS call of
\* the handler that fails, 0 if none does
RECURSIVE rw_loop(_, _, _, _)
rw_loop(kind, st, bufs, failAt) ==
  IF bufs = <<>> THEN st
  ELSE rw_loop(kind, rw_frag(kind, st, Head(bufs), st.n + 1 = failAt),
               Tail(bufs), failAt)

\* count as isize, unless an unwrap panicked
rw_ret(st) == IF st.panic THEN Panic ELSE st.count

\* the round trip in progress: a write of the bytes, a seek back by their
\* count, a read of as many, one right after the other on one descriptor
rt_next(op, fd, whence, arg, ret, bytes) ==
  IF op = "write" /\ bytes # <<>> /\ ret = Len(bytes)
  THEN [stage |-> 1, fd |-> fd, bytes |-> bytes]
  ELSE IF op = "lseek" /\ io.rt.stage = 1 /\ io.rt.fd = fd /\ whence = 1
          /\ arg = -Len(io.rt.bytes) /\ ret >= 0
  THEN [io.rt EXCEPT !.stage = 2]
  ELSE IF op = "read" /\ io.rt.stage = 2 /\ io.rt.fd = fd
          /\ arg = Len(io.rt.bytes)
  THEN [io.rt EXCEPT !.stage = 3]
  ELSE NoRt

\* the handler before this one, when it was a sys_lseek(fd, k, SEEK_SET)
\* that returned k
sk_next == IF io.op = "lseek" /\ io.whence = 0 /\ io.arg >= 0 /\ io.ret = io.arg
           THEN [fd |-> io.fd, k |-> io.arg]
           ELSE NoSk

\* the record of a handler's execution: its arguments, the position it
\* found, its result, the VFS transfers it made in order and the bytes read
IoRec(op, fd, whence, arg, p0, ret, xfers, got, failed, bytes) ==
  [op |-> op, fd |-> fd, whence |-> whence,
   arg |-> IF op = "lseek" THEN arg ELSE 0, p0 |-> p0,
   ret |-> ret, xfers |-> xfers, got |-> got, failed |-> failed,
   rt |-> rt_next(op, fd, whence, arg, ret, bytes),
   sk |-> sk_next, iov |-> <<>>]
IoRecord(op, fd, whence, arg, p0, ret, xfers, got, failed, bytes) ==
  io' = IoRec(op, fd, whence, arg, p0, ret, xfers, got, failed, bytes)

\* sys_read and sys_write: the object behind fd, the position of its file,
\* the loop over the fragments of the user buffer
SysReadWrite(kind, fd, bufs, failAt) ==
  /\ Running
  /\ LET o == get_file(fd)
         len == SumSeq([j \in 1 .. Len(bufs) |-> Len(bufs[j])])
     IN IF o = None
        THEN /\ IoRecord(kind, fd, 0, len, 0, -1, <<>>, <<>>, FALSE, <<>>)
             /\ UNCHANGED <<f_pos, data>>
        ELSE LET f == kfile[o].file
                 st == rw_loop(kind, LoopInit(data[f], f_pos[f], rw_start(f_pos[f])),
                               bufs, failAt)
             IN /\ data' = [data EXCEPT ![f] = st.d]
                /\ f_pos' = [f_pos EXCEPT ![f] = st.pos]
                /\ IoRecord(kind, fd, 0, len, f_pos[f], rw_ret(st), st.xfers,
                            st.got, st.panic,
                            IF kind = "write" THEN Flat(bufs) ELSE <<>>)
  /\ UNCHANGED <<fd_table, kfile, names, last, pc, loc, resolved, env>>

SysRead(fd, frags, failAt) == SysReadWrite("read", fd, UserBuf(0, frags), failAt)
SysWrite(fd, seed, frags, failAt) ==
  SysReadWrite("write", fd, UserBuf(seed, frags), failAt)

\* SeekFrom::from((whence, offset as usize))
SeekFrom(whence, offset) ==
  CASE whence = 0 -> [kind |-> "Start", off |-> as_usize(offset)]
    [] whence = 1 -> [kind |-> "Current", off |-> as_signed(as_usize(offset))]
    [] whence = 2 -> [kind |-> "End", off |-> as_signed(as_usize(offset))]
    [] OTHER -> [kind |-> "Unknown", off |-> 0]

\* vfs_llseek(file, seek): the new absolute position, -1 for an Err
vfs_llseek(pos, size, seek, devOk) ==
  LET new == CASE seek.kind = "Start" -> seek.off
               [] seek.kind = "Current" -> pos + seek.off
               [] seek.kind = "End" -> size + seek.off
               [] OTHER -> -1
  IN IF devOk /\ new >= 0 THEN new ELSE -1

\* sys_lseek returning the success code instead of the position
lseek_ret_zero(res) == IF res < 0 THEN -1 ELSE 0

\* the value sys_lseek returns for the result of vfs_llseek
lseek_ret(res) == IF res < 0 THEN -1 ELSE res

SysLseek(fd, offset, whence, devOk) ==
  /\ Running
  /\ LET o == get_file(fd)
     IN IF o = None
        THEN /\ IoRecord("lseek", fd, whence, offset, 0, -1, <<>>, <<>>, FALSE, <<>>)
             /\ UNCHANGED f_pos
        ELSE LET f == kfile[o].file
                 res == vfs_llseek(f_pos[f], Len(data[f]),
                                   SeekFrom(whence, offset), devOk)
             IN /\ res <= MaxPos
                /\ f_pos' = [f_pos EXCEPT ![f] = IF res < 0 THEN @ ELSE res]
                /\ IoRecord("lseek", fd, whence, offset, f_pos[f], lseek_ret(res),
                            <<>>, <<>>, res < 0, <<>>)
  /\ UNCHANGED <<fd_table, kfile, names, last, pc, loc, data, resolved, env>>

\* ------------------------------------------------ sys_readv, sys_writev
\* an I/O vector entry (IoVec): its base address, 0 for null, and the
\* fragments transfer_raw_buffer(base, len) yields for it
IoVec(base, frags) == [base |-> base, frags |-> frags]
iov_len(e) == SumSeq(e.frags)

\* the entries skipped for their length only
iov_skip_len_only(kind, e) == iov_len(e) = 0

\* if base as usize == 0 (|| iov.len == 0 in sys_readv) { continue; }
iov_skip(kind, e) == e.base = 0 \/ (kind = "read" /\ iov_len(e) = 0)

\* for i in 0..iovcnt: skip the entry or run the loop over its fragments
\* from the file's position
RECURSIVE iov_loop(_, _, _, _)
iov_loop(kind, st, iov, failAt) ==
  IF iov = <<>> THEN st
  ELSE LET e == Head(iov)
           st1 == IF iov_skip(kind, e) \/ st.panic THEN st
                  ELSE rw_loop(kind, [st EXCEPT !.offset = rw_start(st.pos)],
                               UserBuf(0, e.frags), failAt)
       IN iov_loop(kind, st1, Tail(iov), failAt)

\* sys_readv and sys_writev
SysReadWritev(kind, fd, iov, failAt) ==
  /\ Running
  /\ LET o == get_file(fd)
         op == IF kind = "read" THEN "readv" ELSE "writev"
     IN IF o = None
        THEN /\ io' = [IoRec(op, fd, 0, 0, 0, -1, <<>>, <<>>, FALSE, <<>>)
                         EXCEPT !.iov = iov]
             /\ UNCHANGED <<f_pos, data>>
        ELSE LET f == kfile[o].file
                 st == iov_loop(kind, LoopInit(data[f], f_pos[f], f_pos[f]),
                                iov, failAt)
             IN /\ data' = [data EXCEPT ![f] = st.d]
                /\ f_pos' = [f_pos EXCEPT ![f] = st.pos]
                /\ io' = [IoRec(op, fd, 0, 0, f_pos[f], rw_ret(st), st.xfers,
                                st.got, st.panic, <<>>) EXCEPT !.iov = iov]
  /\ UNCHANGED <<fd_table, kfile, names, last, pc, loc, resolved, env>>

SysReadv(fd, iov, failAt) == SysReadWritev("read", fd, iov, failAt)
SysWritev(fd, iov, failAt) == SysReadWritev("write", fd, iov, failAt)

\* the entries a caller passes: a null base, a zero length, one fragment
IoVecs == {IoVec(0, <<1>>), IoVec(1, <<>>), IoVec(1, <<1>>)}
IoVecSeqs == UNION {[1 .. n -> IoVecs] : n \in 0 .. 2}
\* the count of VFS calls a handler makes at most for a vector
IovCalls(iov) == SumSeq([j \in 1 .. Len(iov) |-> Len(iov[j].frags)])

\* a handler on the descriptor table between two I/O handlers ends a
\* round trip in progress
TableStep(A) ==
  /\ Running
  /\ A
  /\ io' = NoIo
  /\ UNCHANGED <<data, resolved, env>>

\* the descriptors passed to the I/O handlers: the first handle and one
\* past the table
IoFds == {0, MaxFd}
\* the buffers a caller passes, with the VFS call that fails (0: none);
\* one buffer only on a descriptor that is not in the table
RwArgs ==
  {a \in IoFds \X {0, 1} \X FragSeqs \X (0 .. 2) :
     /\ a[4] <= Len(a[3])
     /\ a[1] = 0 \/ (a[2] = 0 /\ a[3] = <<1>> /\ a[4] = 0)}
\* the seeks a caller makes: every whence and offset on a live descriptor
\* with the VFS answering, one where it fails, one on a dead descriptor
SeekArgs ==
  {a \in IoFds \X ((-MaxPos) .. MaxPos) \X (0 .. 3) \X BOOLEAN :
     (a[1] = 0 /\ a[4]) \/ (a[2] = 0 /\ a[3] = 0)}
\* the vectors a caller passes, with the VFS call that fails
VecArgs ==
  {a \in IoFds \X IoVecSeqs \X (0 .. 2) :
     /\ a[3] <= IovCalls(a[2])
     /\ a[1] = 0 \/ (a[2] = <<IoVec(1, <<1>>)>> /\ a[3] = 0)}

OpenA == \E raw \in {"/a"} : file_existed(names[Canon(raw)]) = None
                              /\ SysOpenat(AT_FDCWD, raw, "none")
CloseA == \E fd \in Handles : SysClose(fd, TRUE, TRUE)

NextIO ==
  \/ TableStep(OpenA)
  \/ TableStep(CloseA)
  \/ \E a \in {b \in RwArgs : b[2] = 0} : SysRead(a[1], a[3], a[4])
  \/ \E a \in RwArgs : SysWrite(a[1], a[2], a[3], a[4])
  \/ \E a \in SeekArgs : SysLseek(a[1], a[2], a[3], a[4])

SpecIO == Init /\ [][NextIO]_vars

NextVec ==
  \/ TableStep(OpenA)
  \/ TableStep(CloseA)
  \/ \E a \in VecArgs : SysReadv(a[1], a[2], a[3])
  \/ \E a \in VecArgs : SysWritev(a[1], a[2], a[3])

SpecVec == Init /\ [][NextVec]_vars


\* --------------------------------------------------- the path handlers
\* a flag argument as the set of its bits; from_bits(flag) is None when a
\* bit is not one of the known ones
FromBitsSome(flag, known) == flag \subseteq known
OpenFlagBits == {"O_WRONLY", "O_CREAT"}
LinkFlagBits == {"AT_SYMLINK_FOLLOW", "AT_EMPTY_PATH"}
MountFlagBits == {"MS_RDONLY"}
StatFlagBits == {"AT_SYMLINK_NOFOLLOW"}

\* the directory descriptors a caller passes: the cwd sentinel, another
\* negative value, a handle and one past the table
DirFdsAll == {AT_FDCWD, -1, 0, MaxFd}

\* the start of the lookup for a relative path, always the cwd
lookup_start_cwd(fd) == "cwd"

\* where user_path_at starts the lookup of a relative path: the process's
\* cwd dentry and mount, or those of the file behind fd
lookup_start(fd) ==
  IF fd = AT_FDCWD THEN "cwd" ELSE kfile[get_file(as_usize(fd))].file

\* one call of user_path_at(fd, raw, flag): whether it invoked
\* vfs_lookup_path, from where, and its result
ResolverCall(fd, raw, flag, lk) ==
  LET looked == is_relative(raw)
                /\ (fd = AT_FDCWD \/ get_file(as_usize(fd)) # None)
  IN [fd |-> fd, raw |-> raw, flag |-> flag, looked |-> looked,
      start |-> IF looked THEN lookup_start(fd) ELSE "none",
      result |-> user_path_at(fd, raw, lk)]

\* the record of a path handler that leaves the descriptor table alone;
\* dataEmpty is whether the data string of a mount is empty
PathRecord(op, flag, dataEmpty, rs, ret, calls, nm) ==
  /\ resolved' = [flag |-> flag, rs |-> rs, data_empty |-> dataEmpty]
  /\ Record(op, None, IF rs = <<>> THEN NoPath ELSE rs[Len(rs)].result, None,
            ret, calls, FALSE, FALSE)
  /\ names' = nm
  /\ UNCHANGED <<fd_table, kfile, f_pos, pc, loc, data, io, env>>

PathHandler(op, flag, rs, ret, calls, nm) ==
  PathRecord(op, flag, TRUE, rs, ret, calls, nm)

exists(path) == names[Canon(path)] # NoFile

\* sys_openat: OpenFlags::from_bits(flag).unwrap() comes first
SysOpenatFlag(dirfd, raw, flag, fail) ==
  /\ Running
  /\ IF ~FromBitsSome(flag, OpenFlagBits)
     THEN PathHandler("openat", flag, <<>>, Panic, <<>>, names)
     ELSE /\ SysOpenat(dirfd, raw, fail)
          /\ resolved' = [flag |-> flag,
                          rs |-> <<ResolverCall(dirfd, raw, {}, fail # "lookup")>>,
                          data_empty |-> TRUE]
          /\ UNCHANGED <<data, io, env>>

\* sys_unlinkat: assert_eq!(flag, 0) comes first
SysUnlinkatFlag(dirfd, raw, flag, fail) ==
  /\ Running
  /\ IF flag # {}
     THEN PathHandler("unlinkat", flag, <<>>, Panic, <<>>, names)
     ELSE /\ SysUnlinkat(dirfd, raw, fail)
          /\ resolved' = [flag |-> flag,
                          rs |-> <<ResolverCall(dirfd, raw, {}, fail # "lookup")>>,
                          data_empty |-> TRUE]
          /\ UNCHANGED <<data, io, env>>

SysClosePath(fd) ==
  /\ Running
  /\ SysClose(fd, TRUE, TRUE)
  /\ resolved' = NoRes
  /\ UNCHANGED <<data, io, env>>

\* sys_linkat accepting every flag value
linkat_rejects_none(flag) == FALSE

\* sys_linkat: from_bits(flag) is None, or a bit is left after the two
\* recognized ones are subtracted
linkat_rejects(flag) ==
  \/ ~FromBitsSome(flag, LinkFlagBits)
  \/ (flag \ {"AT_SYMLINK_FOLLOW"}) \ {"AT_EMPTY_PATH"} # {}

\* the lookup flags sys_linkat derives, from the flag value after the
\* subtraction
linkat_lookup_flag(flag) ==
  LET left == (flag \ {"AT_SYMLINK_FOLLOW"}) \ {"AT_EMPTY_PATH"}
  IN (IF "AT_SYMLINK_FOLLOW" \in left THEN {"READ_LINK"} ELSE {}) \cup
     (IF "AT_EMPTY_PATH" \in left THEN {"EMPTY"} ELSE {})

\* the resolver calls of a handler with two path arguments: the second
\* path is resolved only if the first one was
TwoPaths(fd1, raw1, fd2, raw2, lf, fail) ==
  LET r1 == ResolverCall(fd1, raw1, lf, fail # "lookup1")
      r2 == ResolverCall(fd2, raw2, lf, fail # "lookup2")
  IN IF r1.result = PathErr THEN <<r1>> ELSE <<r1, r2>>
Resolved(rs, n) == Len(rs) = n /\ \A i \in 1 .. n : rs[i].result # PathErr

\* vfs_link(old, new): a second directory entry for the file
vfs_link_ok(old, new, devOk) == devOk /\ exists(old) /\ ~exists(new)
\* vfs_rename(old, new): the directory entry moves
vfs_rename_ok(old, new, devOk) == devOk /\ exists(old)
\* vfs_symlink(target, new), vfs_mkdir(path, mode): a new directory entry
vfs_create_ok(path, devOk) == devOk /\ ~exists(path)

SysLinkat(old_fd, old_name, new_fd, new_name, flag, fail) ==
  /\ Running
  /\ IF linkat_rejects(flag)
     THEN PathHandler("linkat", flag, <<>>, -1, <<>>, names)
     ELSE LET rs == TwoPaths(old_fd, old_name, new_fd, new_name,
                             linkat_lookup_flag(flag), fail)
          IN IF ~Resolved(rs, 2)
             THEN PathHandler("linkat", flag, rs, -1, <<>>, names)
             ELSE LET old == rs[1].result
                      new == rs[2].result
                      ok == vfs_link_ok(old, new, fail # "vfs")
                  IN PathHandler("linkat", flag, rs, IF ok THEN 0 ELSE -1,
                                 <<VfsCall("vfs_link", <<old, new>>, ok)>>,
                                 IF ok THEN [names EXCEPT ![Canon(new)] = names[Canon(old)]]
                                 ELSE names)

\* sys_renameat calling vfs_rename although a path did not resolve
renameat_calls_unchecked(rs, devOk) ==
  <<VfsCall("vfs_rename", <<rs[1].result, rs[Len(rs)].result>>, FALSE)>>

\* the VFS calls sys_renameat makes after resolving its paths
renameat_calls(rs, devOk) ==
  IF ~Resolved(rs, 2) THEN <<>>
  ELSE <<VfsCall("vfs_rename", <<rs[1].result, rs[2].result>>,
                 vfs_rename_ok(rs[1].result, rs[2].result, devOk))>>

SysRenameat(old_dirfd, old_path, new_dirfd, new_path, fail) ==
  /\ Running
  /\ LET rs == TwoPaths(old_dirfd, old_path, new_dirfd, new_path, {}, fail)
         calls == renameat_calls(rs, fail # "vfs")
         ok == calls # <<>> /\ calls[1].ok
     IN PathHandler("renameat", {}, rs, IF ok THEN 0 ELSE -1, calls,
                    IF ok /\ Canon(rs[1].result) # Canon(rs[2].result)
                    THEN [names EXCEPT ![Canon(rs[2].result)] = names[Canon(rs[1].result)],
                                       ![Canon(rs[1].result)] = NoFile]
                    ELSE names)

\* a handler with one path argument that creates a directory entry:
\* sys_symlinkat (vfs_symlink) and sys_mkdirat (vfs_mkdir)
SysCreateAt(op, call, kind, dirfd, raw, fail) ==
  /\ Running
  /\ LET rs == <<ResolverCall(dirfd, raw, {}, fail # "lookup1")>>
     IN IF ~Resolved(rs, 1)
        THEN PathHandler(op, {}, rs, -1, <<>>, names)
        ELSE LET path == rs[1].result
                 ok == vfs_create_ok(path, fail # "vfs")
             IN PathHandler(op, {}, rs, IF ok THEN 0 ELSE -1,
                            <<VfsCall(call, path, ok)>>,
                            IF ok THEN [names EXCEPT ![Canon(path)] = kind]
                            ELSE names)

SysSymlinkat(new_fd, new_name, fail) ==
  SysCreateAt("symlinkat", "vfs_symlink", "lnk", new_fd, new_name, fail)
SysMkdirat(dirfd, path, fail) ==
  SysCreateAt("mkdirat", "vfs_mkdir", "dir", dirfd, path, fail)

\* sys_readlinkat: the link's target goes to the user buffer, the result is
\* its length
SysReadlinkat(fd, raw, fail) ==
  /\ Running
  /\ LET rs == <<ResolverCall(fd, raw, {}, fail # "lookup1")>>
     IN IF ~Resolved(rs, 1)
        THEN PathHandler("readlinkat", {}, rs, -1, <<>>, names)
        ELSE LET path == rs[1].result
                 ok == fail # "vfs" /\ names[Canon(path)] = "lnk"
             IN PathHandler("readlinkat", {}, rs, IF ok THEN 1 ELSE -1,
                            <<VfsCall("vfs_readlink", path, ok)>> \o
                            (IF ok THEN <<VfsCall("user_write", path, TRUE)>>
                             ELSE <<>>),
                            names)

\* sys_fstateat: the flag is checked after the path is resolved; the
\* attributes go to the user's stat record
SysFstatat(dir_fd, raw, flag, fail) ==
  /\ Running
  /\ LET rs == <<ResolverCall(dir_fd, raw, {}, fail # "lookup1")>>
     IN IF ~Resolved(rs, 1) \/ ~FromBitsSome(flag, StatFlagBits)
        THEN PathHandler("fstatat", flag, rs, -1, <<>>, names)
        ELSE LET path == rs[1].result
                 ok == fail # "vfs" /\ exists(path)
             IN PathHandler("fstatat", flag, rs, IF ok THEN 0 ELSE -1,
                            <<VfsCall("vfs_getattr", path, ok)>> \o
                            (IF ok THEN <<VfsCall("user_write", path, TRUE)>>
                             ELSE <<>>),
                            names)

\* sys_mount returning 0 whether or not its paths resolve
mount_ret_zero(rs, flags) ==
  IF Resolved(rs, 2) /\ ~FromBitsSome(flags, MountFlagBits) THEN Panic ELSE 0

\* the value sys_mount returns once its data string is known to be empty:
\* -1 after a path that did not resolve, then MountFlags::from_bits unwrapped
mount_ret(rs, flags) ==
  IF ~Resolved(rs, 2) THEN -1
  ELSE IF ~FromBitsSome(flags, MountFlagBits) THEN Panic
  ELSE 0

\* sys_mount: assert!(data.is_empty()), both paths resolved from the cwd,
\* MountFlags::from_bits(flags).unwrap(), no VFS call
SysMount(special, dir, flags, dataEmpty, fail) ==
  /\ Running
  /\ IF ~dataEmpty
     THEN PathRecord("mount", flags, FALSE, <<>>, Panic, <<>>, names)
     ELSE LET rs == TwoPaths(AT_FDCWD, special, AT_FDCWD, dir, {}, fail)
          IN PathHandler("mount", flags, rs, mount_ret(rs, flags), <<>>,
                         names)

\* sys_umount: the path resolved from the cwd, no VFS call
SysUmount(dir, fail) ==
  /\ Running
  /\ LET rs == <<ResolverCall(AT_FDCWD, dir, {}, fail # "lookup1")>>
     IN PathHandler("umount", {}, rs, IF Resolved(rs, 1) THEN 0 ELSE -1,
                    <<>>, names)

\* the path arguments a caller passes: each kind of descriptor with an
\* absolute and a relative path of an existing entry; a path that resolves
\* and one that does not; the same for the entry to create
PathArg1 == DirFdsAll \X {"/a", "a"}
PathArgOld == {<<AT_FDCWD, "/a">>, <<MaxFd, "a">>}
PathArgNew == {<<AT_FDCWD, "/b">>, <<MaxFd, "a">>}
Fails1 == {"none", "lookup1", "vfs"}
Fails2 == {"none", "lookup1", "lookup2", "vfs"}
LinkFlagArgs == {{}, {"AT_SYMLINK_FOLLOW", "AT_EMPTY_PATH"}, {"AT_REMOVEDIR"},
                 {"AT_EMPTY_PATH", "AT_REMOVEDIR"}}
\* a handler's flag argument and failing call, for the flag values it
\* recognizes (oks, with every failure) and the others (with none)
FlagFails(oks, bads, fails) == (oks \X fails) \cup (bads \X {"none"})
\* the arguments of sys_mount: special, dir, flags, whether data is empty
MountArgs ==
  {a \in {"/a", "a"} \X {"/b"} \X {{}, {"MS_UNKNOWN"}} \X BOOLEAN
          \X {"none", "lookup1", "lookup2"} :
     a[4] \/ (a[1] = "/a" /\ a[3] = {} /\ a[5] = "none")}

NextPath ==
  \/ \E a \in PathArg1,
        ff \in FlagFails({{}}, {{"O_WRONLY", "O_TMPFILE"}}, {"none", "lookup", "open"}) :
       /\ FreeHandles = Handles \/ ff[2] # "none"
       /\ SysOpenatFlag(a[1], a[2], ff[1], ff[2])
  \/ \E fd \in Handles : SysClosePath(fd)
  \/ \E a \in PathArgOld,
        ff \in FlagFails({{}}, {{"AT_REMOVEDIR"}}, {"none", "lookup", "open", "unlink"}) :
       SysUnlinkatFlag(a[1], a[2], ff[1], ff[2])
  \/ \E a \in PathArgOld, b \in PathArgNew, flag \in LinkFlagArgs, fail \in Fails2 :
       SysLinkat(a[1], a[2], b[1], b[2], flag, fail)
  \/ \E a \in PathArgOld, b \in PathArgNew, fail \in Fails2 :
       SysRenameat(a[1], a[2], b[1], b[2], fail)
  \/ \E b \in PathArgNew, fail \in Fails1 : SysSymlinkat(b[1], b[2], fail)
  \/ \E b \in PathArgNew, fail \in Fails1 : SysMkdirat(b[1], b[2], fail)
  \/ \E a \in PathArgNew, fail \in Fails1 : SysReadlinkat(a[1], a[2], fail)
  \/ \E a \in PathArg1, ff \in FlagFails({{}}, {{"AT_UNKNOWN"}}, Fails1) :
       SysFstatat(a[1], a[2], ff[1], ff[2])
  \/ \E a \in MountArgs : SysMount(a[1], a[2], a[3], a[4], a[5])
  \/ \E dir \in {"/b", "a"}, fail \in {"none", "lookup1"} : SysUmount(dir, fail)

\* a VFS in which /b does not exist yet
InitPath ==
  /\ fd_table = [h \in Handles |-> None]
  /\ kfile = [o \in Objs |-> KFileNew(NoFile)]
  /\ names = [e \in Entries |-> IF e = "/a" THEN "f1" ELSE NoFile]
  /\ f_pos = [f \in Files |-> 0]
  /\ last = [op |-> "init", fd |-> None, path |-> NoPath, obj |-> None,
             ret |-> 0, calls |-> <<>>, shared |-> FALSE, prior |-> FALSE]
  /\ pc = [t \in Threads |-> "idle"]
  /\ loc = [t \in Threads |-> NoLoc]
  /\ data = [f \in Files |-> <<>>]
  /\ io = NoIo
  /\ resolved = NoRes
  /\ EnvInit

SpecPath == InitPath /\ [][NextPath]_vars

\* ------------------------------------------------ sys_chdir, sys_getcwd
\* the directory tree the VFS resolves absolute paths in: each entry's type
\* and the mount it lives on; "/m" is the root of a second mount
CwdTree == [e \in {"/", "/d", "/m", "/a"} |->
              [dir |-> e # "/a", mnt |-> IF e = "/m" THEN "m1" ELSE "m0"]]

ChdirPaths == {"/", "/d", "/m", "/./d", "/a", "/x"}

\* the entry an absolute path names, "." components dropped
CwdCanon(p) == IF p = "/./d" THEN "/d" ELSE p

\* the bytes of a path string
PathBytes(p) ==
  CASE p = "/" -> <<"/">>
    [] p = "/d" -> <<"/", "d">>
    [] p = "/m" -> <<"/", "m">>
    [] p = "/a" -> <<"/", "a">>
    [] p = "/x" -> <<"/", "x">>
    [] p = "/./d" -> <<"/", ".", "/", "d">>

\* vfs_open_file(path, O_RDWR | O_DIRECTORY, FMODE_READ): the opened file's
\* dentry and mount, an error if the path names nothing
vfs_open_dir(path) ==
  IF CwdCanon(path) \in DOMAIN CwdTree
  THEN [ok |-> TRUE, f_dentry |-> CwdCanon(path),
        f_mnt |-> CwdTree[CwdCanon(path)].mnt]
  ELSE [ok |-> FALSE, f_dentry |-> NoPath, f_mnt |-> NoPath]

\* vfs_lookup_path(cwd, cmnt, Relative(""), empty): the path of the dentry
vfs_lookup_path(cwd, cmnt) == PathBytes(cwd)

\* sys_chdir up to the end of its first statement on fs_info: the open, the
\* directory check and the store of the dentry; the store of the mount is a
\* second acquisition of the process lock
ChdirBegin(t, path) ==
  /\ pc[t] = "idle"
  /\ LET file == vfs_open_dir(path)
     IN IF ~file.ok \/ ~CwdTree[file.f_dentry].dir
        THEN /\ Record("chdir", None, path, None, -1,
                       <<VfsCall("vfs_open_file", path, file.ok)>>,
                       FALSE, FALSE)
             /\ UNCHANGED <<fs_info, pc, loc>>
        ELSE /\ fs_info' = [fs_info EXCEPT !.cwd = file.f_dentry]
             /\ pc' = [pc EXCEPT ![t] = "chdir_cmnt"]
             /\ loc' = [loc EXCEPT ![t] = [path |-> path, file |-> file]]
             /\ UNCHANGED last
  /\ UNCHANGED <<fd_table, kfile, names, f_pos, data, io, resolved, fault,
                 sound, xattr>>

\* the second statement: the store of the mount, and the return of 0
ChdirCmnt(t) ==
  /\ pc[t] = "chdir_cmnt"
  /\ fs_info' = [fs_info EXCEPT !.cmnt = loc[t].file.f_mnt]
  /\ Record("chdir", None, loc[t].path, None, 0,
            <<VfsCall("vfs_open_file", loc[t].path, TRUE)>>, FALSE, FALSE)
  /\ pc' = [pc EXCEPT ![t] = "idle"]
  /\ loc' = [loc EXCEPT ![t] = NoLoc]
  /\ UNCHANGED <<fd_table, kfile, names, f_pos, data, io, resolved, fault,
                 sound, xattr>>

\* the fragment lengths transfer_raw_buffer may cut a user buffer into
CwdFrags == UNION {[1 .. n -> 1 .. MaxPos] : n \in 0 .. MaxFrag + 1}

\* the user addresses a buffer is passed at, 0 the null pointer
UserAddrs == {0, 1, 2}

\* the offsets at which the page table may map a user page into the
\* kernel-visible address range
KernOffsets == {0, Word \div 2}

\* the copy loop of sys_getcwd: each fragment takes the bytes that are left
\* of the path, up to its length
getcwd_copy(path, frags) ==
  LET F[j \in 0 .. Len(frags)] ==
        IF j = 0 THEN [left |-> path, got |-> <<>>]
        ELSE LET st == F[j - 1]
                 min == Min({Len(st.left), frags[j]})
             IN IF st.left = <<>> THEN st
                ELSE [left |-> SubSeq(st.left, min + 1, Len(st.left)),
                      got |-> Append(st.got, SubSeq(st.left, 1, min))]
  IN F[Len(frags)].got

\* sys_getcwd by thread t with the buffer at user address addr, cut into
\* frags and mapped at kernel offset koff: one read of fs_info under the
\* lock, the copy, and the address of the first fragment as the result
SysGetcwd(t, addr, frags, koff) ==
  /\ pc[t] = "idle"
  /\ Running
  /\ LET seen == fs_info
         path == vfs_lookup_path(seen.cwd, seen.cmnt)
         ret == IF addr = 0 \/ frags = <<>> THEN Panic
                ELSE as_usize(addr + koff)
     IN io' = [op |-> "getcwd", addr |-> addr, len |-> SumSeq(frags),
               seen |-> seen, ret |-> ret,
               got |-> IF addr = 0 THEN <<>> ELSE getcwd_copy(path, frags),
               quiet |-> \A u \in Threads : pc[u] = "idle"]
  /\ UNCHANGED <<fd_table, kfile, names, f_pos, last, pc, loc, data,
                 resolved, env>>

NextCwd ==
  \/ \E t \in Threads, path \in ChdirPaths : ChdirBegin(t, path)
  \/ \E t \in Threads : ChdirCmnt(t)
  \/ \E t \in Threads, addr \in UserAddrs, frags \in CwdFrags,
        koff \in KernOffsets :
       SysGetcwd(t, addr, frags, koff)

SpecCwd == Init /\ [][NextCwd]_vars

\* ------------------------------------------------- page fault handlers
Traps == {"LoadPageFault", "StorePageFault", "InstructionPageFault"}

\* what the region table answers for a faulting address: an error, no
\* tuple (store faults only), or a tuple of the backing file if any, the
\* length of the destination buffer and the offset in the file
RegionInfo(kind, file, len, offset) ==
  [kind |-> kind, file |-> file, len |-> len, offset |-> offset]
NoInfo == RegionInfo("none", NoFile, 0, 0)
RegionInfos(trap) ==
  IF trap = "InstructionPageFault" THEN {NoInfo}
  ELSE {RegionInfo("Err", NoFile, 0, 0)}
       \cup (IF trap = "StorePageFault"
             THEN {RegionInfo("None", NoFile, 0, 0)} ELSE {})
       \cup {RegionInfo("Some", f, len, off) :
               f \in Files \cup {NoFile}, len \in 1 .. MaxPos,
               off \in 0 .. MaxPos}

FaultRead(info) ==
  [file |-> info.file, len |-> info.len, offset |-> info.offset]

\* the load-fault handler reading the backing file from its start
load_page_fault_reads_at_zero(info) ==
  IF info.kind = "Err" THEN [ret |-> "Err", reads |-> <<>>]
  ELSE [ret |-> "Ok",
        reads |-> IF info.file # NoFile
                  THEN <<[FaultRead(info) EXCEPT !.offset = 0]>> ELSE <<>>]

\* load_page_fault_exception_handler for the answer of do_load_page_fault:
\* its result and the VFS reads it issues
load_page_fault_exception_handler(info) ==
  IF info.kind = "Err" THEN [ret |-> "Err", reads |-> <<>>]
  ELSE [ret |-> "Ok",
        reads |-> IF info.file # NoFile THEN <<FaultRead(info)>> ELSE <<>>]

\* store_page_fault_exception_handler for the answer of do_store_page_fault
store_page_fault_exception_handler(info) ==
  IF info.kind = "Err" THEN [ret |-> "Err", reads |-> <<>>]
  ELSE [ret |-> "Ok",
        reads |-> IF info.kind = "Some" /\ info.file # NoFile
                  THEN <<FaultRead(info)>> ELSE <<>>]

\* page_exception_handler returning success for a trap it does not handle
page_exception_handler_accepts(trap, info) ==
  CASE trap = "LoadPageFault" ->
         [consulted |-> TRUE] @@ load_page_fault_exception_handler(info)
    [] trap = "StorePageFault" ->
         [consulted |-> TRUE] @@ store_page_fault_exception_handler(info)
    [] OTHER -> [consulted |-> FALSE, ret |-> "Ok", reads |-> <<>>]

\* page_exception_handler: the handler of the trap, its error propagated
\* by ?, an error for every other trap
page_exception_handler(trap, info) ==
  CASE trap = "LoadPageFault" ->
         [consulted |-> TRUE] @@ load_page_fault_exception_handler(info)
    [] trap = "StorePageFault" ->
         [consulted |-> TRUE] @@ store_page_fault_exception_handler(info)
    [] OTHER -> [consulted |-> FALSE, ret |-> "Err", reads |-> <<>>]

\* the positions of the files after the VFS reads of a fault handler
pos_after_reads(reads) ==
  [f \in Files |->
     IF reads # <<>> /\ reads[1].file = f
     THEN vfs_read_pos(f_pos[f], reads[1].offset,
                       vfs_read_len(data[f], reads[1].offset, reads[1].len))
     ELSE f_pos[f]]

\* a page fault trap with the region table's answer for its address
PageFault(trap, info) ==
  /\ Running
  /\ LET h == page_exception_handler(trap, info)
     IN /\ fault' = [trap |-> trap, info |-> info.kind, file |-> info.file,
                     len |-> info.len, offset |-> info.offset,
                     consulted |-> h.consulted, reads |-> h.reads,
                     ret |-> h.ret]
        /\ f_pos' = pos_after_reads(h.reads)
        /\ \A f \in Files : f_pos'[f] <= MaxPos
  /\ UNCHANGED <<fd_table, kfile, names, last, pc, loc, data, io, resolved,
                 fs_info, sound, xattr>>

NextFault ==
  \E trap \in Traps : \E info \in RegionInfos(trap) : PageFault(trap, info)

\* files that hold MaxPos bytes each
InitFault ==
  /\ fd_table = [h \in Handles |-> None]
  /\ kfile = [o \in Objs |-> KFileNew(NoFile)]
  /\ names = [e \in Entries |-> IF e = "/a" THEN "f1" ELSE "f2"]
  /\ f_pos = [f \in Files |-> 0]
  /\ last = [op |-> "init", fd |-> None, path |-> NoPath, obj |-> None,
             ret |-> 0, calls |-> <<>>, shared |-> FALSE, prior |-> FALSE]
  /\ pc = [t \in Threads |-> "idle"]
  /\ loc = [t \in Threads |-> NoLoc]
  /\ data = [f \in Files |-> [i \in 1 .. MaxPos |-> i]]
  /\ io = NoIo
  /\ resolved = NoRes
  /\ EnvInit

SpecFault == InitFault /\ [][NextFault]_vars

\* --------------------------------------- xattr handlers, sys_statfs, FileLike
\* the record of one of these handlers: the descriptor or path it was
\* given, the size of its user buffer, its flag, its result, its VFS calls
\* and what it wrote to user memory
AttrRecord(op, fd, path, size, flag, ret, calls, out) ==
  last' = [op |-> op, fd |-> fd, path |-> path, size |-> size, flag |-> flag,
           ret |-> ret, calls |-> calls, out |-> out]

\* transfer_raw_buffer(ptr, size): the lengths of the kernel-visible slices,
\* none for a zero-length buffer
AttrBufs == {q \in UNION {[1 .. n -> 1 .. MaxPos] : n \in 0 .. 2} :
               SumSeq(q) <= MaxPos}

\* the slice the get and list handlers pass to the VFS: an empty placeholder
\* is pushed onto an empty list before the first slice is taken
value_or_placeholder(value) == IF value = <<>> THEN <<0>> ELSE value

\* the VFS file a path names, NoFile if none
FileAt(path) == names[Canon(path)]
\* the VFS file behind a descriptor, NoFile if the descriptor is not live
FileOf(fd) ==
  IF get_file(fd) = None THEN NoFile ELSE kfile[get_file(fd)].file

\* vfs_setxattr: stores the value on an existing file
vfs_setxattr_ok(f, devOk) == f # NoFile /\ devOk
\* vfs_getxattr: the length of the stored value; an error if there is none
\* or a buffer that is not empty is too short for it
vfs_getxattr(f, len, devOk) ==
  IF f = NoFile \/ ~devOk THEN -1
  ELSE IF xattr[f] < 0 THEN -1
  ELSE IF len # 0 /\ len < xattr[f] THEN -1
  ELSE xattr[f]
\* vfs_listxattr: the length of the name list, one byte per attribute
vfs_listxattr(f, len, devOk) ==
  IF f = NoFile \/ ~devOk THEN -1
  ELSE IF xattr[f] < 0 THEN 0
  ELSE IF len # 0 /\ len < 1 THEN -1
  ELSE 1

XattrCall(c, f, slice, res) ==
  VfsCall(c, [file |-> f, slice |-> slice, res |-> res], res >= 0)

AttrFrame == UNCHANGED <<fd_table, kfile, names, f_pos, pc, loc, data, io,
                         resolved, fs_info, fault, sound>>

\* sys_setxattr and sys_lsetxattr (which calls it): assert_eq!(flag, 0),
\* then value[0] of the transferred buffer goes to vfs_setxattr
SysSetxattr(op, path, value, flag, devOk) ==
  /\ Running
  /\ LET f == FileAt(path)
         ok == vfs_setxattr_ok(f, devOk)
     IN IF flag # 0 \/ value = <<>>
        THEN /\ AttrRecord(op, None, path, SumSeq(value), flag, Panic, <<>>,
                           <<>>)
             /\ UNCHANGED xattr
        ELSE /\ AttrRecord(op, None, path, SumSeq(value), flag,
                           IF ok THEN 0 ELSE -1,
                           <<XattrCall("vfs_setxattr", f, value[1],
                                       IF ok THEN 0 ELSE -1)>>, <<>>)
             /\ xattr' = IF ok THEN [xattr EXCEPT ![f] = value[1]] ELSE xattr
  /\ AttrFrame

\* sys_fsetxattr: assert_eq!(flag, 0), the descriptor looked up, then
\* value[0] goes to vfs_setxattr_by_file
SysFsetxattr(fd, value, flag, devOk) ==
  /\ Running
  /\ LET f == FileOf(fd)
         ok == vfs_setxattr_ok(f, devOk)
     IN IF flag # 0
        THEN /\ AttrRecord("fsetxattr", fd, NoPath, SumSeq(value), flag,
                           Panic, <<>>, <<>>)
             /\ UNCHANGED xattr
        ELSE IF get_file(fd) = None
        THEN /\ AttrRecord("fsetxattr", fd, NoPath, SumSeq(value), flag, -1,
                           <<>>, <<>>)
             /\ UNCHANGED xattr
        ELSE IF value = <<>>
        THEN /\ AttrRecord("fsetxattr", fd, NoPath, SumSeq(value), flag,
                           Panic, <<>>, <<>>)
             /\ UNCHANGED xattr
        ELSE /\ AttrRecord("fsetxattr", fd, NoPath, SumSeq(value), flag,
                           IF ok THEN 0 ELSE -1,
                           <<XattrCall("vfs_setxattr_by_file", f, value[1],
                                       IF ok THEN 0 ELSE -1)>>, <<>>)
             /\ xattr' = IF ok THEN [xattr EXCEPT ![f] = value[1]] ELSE xattr
  /\ AttrFrame

\* sys_getxattr, sys_lgetxattr, sys_listxattr and sys_llistxattr: the
\* placeholder, then the first slice goes to the VFS; its count is returned
SysGetListxattr(op, path, value, devOk) ==
  /\ Running
  /\ LET f == FileAt(path)
         slice == value_or_placeholder(value)[1]
         res == IF op \in {"getxattr", "lgetxattr"}
                THEN vfs_getxattr(f, slice, devOk)
                ELSE vfs_listxattr(f, slice, devOk)
     IN AttrRecord(op, None, path, SumSeq(value), 0,
                   IF res < 0 THEN -1 ELSE res,
                   <<XattrCall(IF op \in {"getxattr", "lgetxattr"}
                               THEN "vfs_getxattr" ELSE "vfs_listxattr",
                               f, slice, res)>>,
                   IF res < 0 THEN <<>> ELSE <<Min({res, slice})>>)
  /\ UNCHANGED xattr
  /\ AttrFrame

\* sys_fgetxattr and sys_flistxattr: the placeholder, the descriptor looked
\* up, then the first slice goes to the VFS
SysFGetListxattr(op, fd, value, devOk) ==
  /\ Running
  /\ LET f == FileOf(fd)
         slice == value_or_placeholder(value)[1]
         res == IF op = "fgetxattr" THEN vfs_getxattr(f, slice, devOk)
                ELSE vfs_listxattr(f, slice, devOk)
     IN IF get_file(fd) = None
        THEN AttrRecord(op, fd, NoPath, SumSeq(value), 0, -1, <<>>, <<>>)
        ELSE AttrRecord(op, fd, NoPath, SumSeq(value), 0,
                        IF res < 0 THEN -1 ELSE res,
                        <<XattrCall(IF op = "fgetxattr"
                                    THEN "vfs_getxattr_by_file"
                                    ELSE "vfs_listxattr_by_file",
                                    f, slice, res)>>,
                        IF res < 0 THEN <<>> ELSE <<Min({res, slice})>>)
  /\ UNCHANGED xattr
  /\ AttrFrame

\* vfs_statfs(path): the statistics of the file system, an error for a path
\* that names nothing
vfs_statfs(path) ==
  [ok |-> FileAt(path) # NoFile,
   fs_type |-> 1, block_size |-> 1,
   total_blocks |-> MaxPos * Cardinality(Files),
   free_blocks |-> MaxPos * Cardinality(Files)
                   - Cardinality({<<f, i>> \in Files \X (1 .. MaxPos) :
                                    i <= Len(data[f])}),
   total_inodes |-> Cardinality({e \in Entries : names[e] # NoFile}),
   name_len |-> MaxPos]

vfs_statfs2fsstat(vfs_res) ==
  [f_type |-> vfs_res.fs_type, f_bsize |-> vfs_res.block_size,
   f_blocks |-> vfs_res.total_blocks, f_bfree |-> vfs_res.free_blocks,
   f_bavail |-> 0, f_files |-> vfs_res.total_inodes, f_ffree |-> 0,
   f_fsid |-> <<0, 1>>, f_namelen |-> vfs_res.name_len, f_frsize |-> 0,
   f_flags |-> 0, f_spare |-> <<0, 0, 0, 0>>]

\* sys_statfs removing the entry it is asked about
statfs_calls_unlink(path, res) ==
  <<VfsCall("vfs_statfs", path, res.ok), VfsCall("vfs_unlink", path, res.ok)>>

\* the VFS calls of sys_statfs
statfs_calls(path, res) == <<VfsCall("vfs_statfs", path, res.ok)>>

\* sys_statfs: the statistics converted and written to the user's record
SysStatfs(path) ==
  /\ Running
  /\ LET res == vfs_statfs(path)
         calls == statfs_calls(path, res)
     IN /\ AttrRecord("statfs", None, path, 0, 0, IF res.ok THEN 0 ELSE -1,
                      calls,
                      IF res.ok THEN <<vfs_statfs2fsstat(res)>> ELSE <<>>)
        /\ names' = names_after(calls)
  /\ UNCHANGED <<fd_table, kfile, f_pos, pc, loc, data, io, resolved, env>>

\* the file-like objects: a normal file or a socket, the sockets numbered
\* on their own
Socks == 1 .. MaxFd
FileLikes == {[tag |-> "NormalFile", obj |-> o] : o \in Objs}
             \cup {[tag |-> "Socket", obj |-> s] : s \in Socks}

\* get_nf answering None for a socket
get_nf_none(fl) ==
  IF fl.tag = "NormalFile" THEN [kind |-> "Some", obj |-> fl.obj]
  ELSE [kind |-> "None", obj |-> None]

get_nf(fl) ==
  IF fl.tag = "NormalFile" THEN [kind |-> "Some", obj |-> fl.obj]
  ELSE [kind |-> "panic", obj |-> None]

get_socket(fl) ==
  IF fl.tag = "Socket" THEN [kind |-> "Some", obj |-> fl.obj]
  ELSE [kind |-> "panic", obj |-> None]

\* a call of one of the accessors on a file-like object
Accessor(acc, fl) ==
  /\ Running
  /\ LET out == IF acc = "get_nf" THEN get_nf(fl) ELSE get_socket(fl)
     IN last' = [op |-> acc, arg |-> fl, out |-> out,
                 ret |-> IF out.kind = "panic" THEN Panic ELSE 0]
  /\ UNCHANGED xattr
  /\ AttrFrame

XattrPaths == {"/a", "/b"}
NextAttr ==
  \/ TableStep(OpenA)
  \/ TableStep(CloseA)
  \/ TableStep(SysUnlinkat(AT_FDCWD, "/b", "none"))
  \/ \E op \in {"setxattr", "lsetxattr"}, path \in XattrPaths,
        value \in AttrBufs, flag \in {0, 1}, devOk \in BOOLEAN :
       SysSetxattr(op, path, value, flag, devOk)
  \/ \E fd \in IoFds, value \in AttrBufs, flag \in {0, 1}, devOk \in BOOLEAN :
       SysFsetxattr(fd, value, flag, devOk)
  \/ \E op \in {"getxattr", "lgetxattr", "listxattr", "llistxattr"},
        path \in XattrPaths, value \in AttrBufs, devOk \in BOOLEAN :
       SysGetListxattr(op, path, value, devOk)
  \/ \E op \in {"fgetxattr", "flistxattr"}, fd \in IoFds, value \in AttrBufs,
        devOk \in BOOLEAN :
       SysFGetListxattr(op, fd, value, devOk)
  \/ \E path \in XattrPaths : SysStatfs(path)
  \/ \E acc \in {"get_nf", "get_socket"}, fl \in FileLikes : Accessor(acc, fl)

SpecAttr == Init /\ [][NextAttr]_vars

\* ---------------------------------------------------------- init_sound
\* the sound devices a caller may register; sound.call[t] is where thread t
\* is in init_sound and the device of its most recent call
Devices == 1 .. MaxFd + 1

\* call_once running the closure on a cell that is already complete
call_once_again(status) ==
  IF status = "Running" THEN "spin" ELSE "run"

\* Once::call_once: where a call goes for the status it finds: the caller
\* that finds the cell incomplete runs the closure, one that finds a closure
\* running waits for it, one that finds the cell complete returns
call_once(status) ==
  CASE status = "Incomplete" -> "run"
    [] status = "Running" -> "spin"
    [] status = "Complete" -> "idle"

\* init_sound(dev) by thread t enters SOUND_DEVICE.call_once(|| dev)
InitSoundBegin(t, dev) ==
  /\ sound.call[t].pc = "idle"
  /\ LET to == call_once(sound.status)
     IN sound' = [sound EXCEPT
                    !.status = IF to = "run" THEN "Running" ELSE @,
                    !.first = IF to = "run" /\ @ = None THEN dev ELSE @,
                    !.call[t] = [pc |-> to, dev |-> dev]]
  /\ UNCHANGED <<fd_table, kfile, names, f_pos, last, pc, loc, data, io,
                 resolved, fs_info, fault, xattr>>

\* the closure has run: its value is stored and the cell is complete
InitSoundStore(t) ==
  /\ sound.call[t].pc = "run"
  /\ sound' = [sound EXCEPT !.status = "Complete",
                            !.value = sound.call[t].dev,
                            !.call[t].pc = "idle"]
  /\ UNCHANGED <<fd_table, kfile, names, f_pos, last, pc, loc, data, io,
                 resolved, fs_info, fault, xattr>>

\* a waiting caller sees the cell complete and returns
InitSoundReturn(t) ==
  /\ sound.call[t].pc = "spin"
  /\ sound.status = "Complete"
  /\ sound' = [sound EXCEPT !.call[t].pc = "idle"]
  /\ UNCHANGED <<fd_table, kfile, names, f_pos, last, pc, loc, data, io,
                 resolved, fs_info, fault, xattr>>

NextSound ==
  \/ \E t \in Threads, dev \in Devices : InitSoundBegin(t, dev)
  \/ \E t \in Threads : InitSoundStore(t)
  \/ \E t \in Threads : InitSoundReturn(t)

SpecSound == Init /\ [][NextSound]_vars

\* ------------------------- sys_unlinkat against sys_close and sys_openat
\* an object that no handle references any more, still held by a handler
Orphan == -1

\* the object a handler holds, under the name it has once handle fd is
\* removed from the table
HeldAfterClose(fd, x) ==
  LET tbl == [fd_table EXCEPT ![fd] = None]
  IN IF x = None \/ x = Orphan THEN x
     ELSE IF HandlesOf(tbl, x) = {} THEN Orphan
     ELSE NameOf(tbl, x)

\* sys_unlinkat by thread t up to task.file_existed: the path resolved, the
\* file opened to probe it, and the table searched under the process lock
UnlinkatProbe(t, raw) ==
  /\ pc[t] = "idle"
  /\ LET path == user_path_at(AT_FDCWD, raw, TRUE)
         opened == vfs_open_ok(path, TRUE)
     IN IF ~opened
        THEN /\ Record("unlinkat", None, path, None, -1,
                       <<VfsCall("vfs_open_file", path, FALSE)>>, FALSE, FALSE)
             /\ UNCHANGED <<pc, loc>>
        ELSE /\ pc' = [pc EXCEPT ![t] = "unlinkat_act"]
             /\ loc' = [loc EXCEPT ![t] =
                          [path |-> path,
                           is_used |-> file_existed(names[Canon(path)])]]
             /\ UNCHANGED last
  /\ UNCHANGED <<fd_table, kfile, names, f_pos, data, io, resolved, env>>

\* the rest of sys_unlinkat: set_unlink on the object file_existed found,
\* or the VFS unlink when it found none
UnlinkatAct(t) ==
  /\ pc[t] = "unlinkat_act"
  /\ LET path == loc[t].path
         used == loc[t].is_used
         calls == <<VfsCall("vfs_open_file", path, TRUE)>> \o
                  (IF used # None THEN <<>>
                   ELSE <<VfsCall("vfs_unlink", path,
                                  vfs_unlink_ok(path, TRUE))>>)
     IN /\ kfile' = IF used # None /\ used # Orphan
                    THEN [kfile EXCEPT ![used] = set_unlink(@, path)]
                    ELSE kfile
        /\ names' = names_after(calls)
        /\ Record("unlinkat", None, path, used, unlinkat_ret(calls), calls,
                  used # None /\ used # Orphan, FALSE)
  /\ pc' = [pc EXCEPT ![t] = "idle"]
  /\ loc' = [loc EXCEPT ![t] = NoLoc]
  /\ UNCHANGED <<fd_table, f_pos, data, io, resolved, env>>

\* sys_openat by thread t of a file no descriptor has open
RaceOpenat(t, raw) ==
  /\ pc[t] = "idle"
  /\ file_existed(names[Canon(raw)]) = None
  /\ SysOpenat(AT_FDCWD, raw, "none")
  /\ UNCHANGED <<data, io, resolved, env>>

\* sys_close by thread t; a handler that holds the object keeps it
RaceClose(t, fd) ==
  /\ pc[t] = "idle"
  /\ SysCloseTable(fd, TRUE, TRUE)
  /\ loc' = [u \in Threads |->
               IF pc[u] = "unlinkat_act"
               THEN [loc[u] EXCEPT !.is_used = HeldAfterClose(fd, @)]
               ELSE loc[u]]
  /\ UNCHANGED <<pc, data, io, resolved, env>>

NextRace ==
  \/ \E t \in Threads, raw \in {"/a", "/b"} : UnlinkatProbe(t, raw)
  \/ \E t \in Threads : UnlinkatAct(t)
  \/ \E t \in Threads, raw \in {"/a", "/b"} : RaceOpenat(t, raw)
  \/ \E t \in Threads, fd \in Handles : RaceClose(t, fd)

SpecRace == Init /\ [][NextRace]_vars

\* ------------------------------------------------------------ claims
CallsOf(calls, c) == {i \in 1 .. Len(calls) : calls[i].call = c}
LiveHandles == {h \in Handles : fd_table[h] # None}
\* a sys_close that removed a descriptor of an object with a pending path
ClosedPending == last.op = "close" /\ last.path \notin {NoPath, PathErr}
                 /\ last.calls # <<>>

\* C1: for a file open in the process, sys_unlinkat of its path returns 0,
\* and the VFS unlink of the pending path is invoked exactly once over the
\* execution, by the close that leaves no descriptor on the object: not
\* while a descriptor is left, and not a second time
C1_UnlinkExactlyOnceAfterClose ==
  /\ (last.op = "unlinkat" /\ last.shared) => last.ret = 0
  /\ ClosedPending =>
       IF last.shared
       THEN CallsOf(last.calls, "vfs_unlink") = {} /\ ~last.prior
       ELSE Cardinality(CallsOf(last.calls, "vfs_unlink")) = 1 /\ ~last.prior

\* C2: a sys_close that leaves another descriptor on an object with a
\* pending path does not invoke the VFS unlink
C2_NoUnlinkBeforeLastClose ==
  (ClosedPending /\ last.shared) => CallsOf(last.calls, "vfs_unlink") = {}

\* C3: in a sys_close of an object with a pending path, the VFS unlink is
\* invoked after the VFS close of the same handle has returned
C3_UnlinkAfterVfsClose ==
  ClosedPending =>
    \A i \in CallsOf(last.calls, "vfs_unlink") :
      \E j \in CallsOf(last.calls, "vfs_close_file") : j < i
C3_Witness ==
  /\ ClosedPending
  /\ CallsOf(last.calls, "vfs_unlink") # {}
  /\ CallsOf(last.calls, "vfs_close_file") # {}

\* C4: sys_close requests the VFS unlink of the pending path only if the
\* VFS close before it succeeded
C4_UnlinkOnlyAfterSuccessfulClose ==
  (last.op = "close" /\ CallsOf(last.calls, "vfs_unlink") # {}) =>
    \A j \in CallsOf(last.calls, "vfs_close_file") : last.calls[j].ok

\* C5: a sys_unlinkat whose path resolves and opens either finds a live
\* object on the file, sets that object's pending path to the resolved path,
\* returns 0 and invokes no VFS unlink; or finds none, invokes the VFS
\* unlink of the resolved path once and returns 0 if it succeeds, -1 if not
C5_Step ==
  (last'.op = "unlinkat" /\ last'.calls # <<>> /\ last'.calls[1].ok) =>
    LET path == last'.calls[1].arg
        f == names[Canon(path)]
        users == {h \in LiveHandles : kfile[fd_table[h]].file = f}
        ul == CallsOf(last'.calls, "vfs_unlink")
    IN IF users # {}
       THEN /\ \E h \in users : kfile'[fd_table'[h]].unlink = path
            /\ last'.ret = 0
            /\ ul = {}
            /\ names' = names
       ELSE /\ Cardinality(ul) = 1
            /\ \A i \in ul : last'.calls[i].arg = path
            /\ last'.ret = (IF \A i \in ul : last'.calls[i].ok THEN 0 ELSE -1)
            /\ kfile' = kfile
C5_UnlinkatDefersOrUnlinks == [][C5_Step]_vars
C5_Witness ==
  /\ last.op = "unlinkat" /\ last.shared /\ last.ret = 0
  /\ \E h \in LiveHandles : kfile[fd_table[h]].unlink = last.path
  /\ Cardinality(LiveHandles) >= 2

\* C6: the pending path of an open file object is write-once: once set it
\* is the same after every step, as long as the object lives
C6_Step ==
  \A h \in Handles :
    (fd_table[h] # None /\ fd_table'[h] # None
       /\ kfile[fd_table[h]].unlink # NoPath) =>
      kfile'[fd_table'[h]].unlink = kfile[fd_table[h]].unlink
C6_PendingPathWriteOnce == [][C6_Step]_vars

\* C7: the handle a successful sys_openat returns is the smallest
\* non-negative integer that was not a live handle: every smaller handle is
\* live, and the returned one now holds the object just opened
C7_SmallestFreeHandle ==
  (last.op = "openat" /\ last.ret >= 0) =>
    /\ last.ret \in Handles
    /\ \A h \in 0 .. (last.ret - 1) : fd_table[h] # None
    /\ fd_table[last.ret] = last.obj
    /\ kfile[last.obj].file # NoFile
C7_Witness ==
  /\ last.op = "openat" /\ last.ret = 0
  /\ \E h \in Handles : h > 0 /\ fd_table[h] # None
  /\ fd_table[0] # fd_table[1]

\* C8: a live handle keeps naming an object on the same VFS file in every
\* step that is not the sys_close of that handle, and a successful open
\* returns a handle that was not live
C8_Step ==
  /\ \A h \in Handles :
       (fd_table[h] # None /\ ~(last'.op = "close" /\ last'.fd = h)) =>
         /\ fd_table'[h] # None
         /\ kfile'[fd_table'[h]].file = kfile[fd_table[h]].file
  /\ (last'.op = "openat" /\ last'.ret >= 0) => fd_table[last'.ret] = None
C8_HandleStableUntilClose == [][C8_Step]_vars
C8_Witness ==
  /\ last.op = "openat" /\ last.ret = 1
  /\ fd_table[0] # None /\ fd_table[0] # fd_table[1]
  /\ kfile[fd_table[0]].file # kfile[fd_table[1]].file

\* C9: a sys_close that leaves another descriptor on the object does not
\* issue the VFS close of the file
C9_NoVfsCloseWhileShared ==
  (last.op = "close" /\ last.shared) => CallsOf(last.calls, "vfs_close_file") = {}

\* C10: two sys_write calls running at once on one file are serialized:
\* while both are between their read of the position and their return,
\* they have not both transferred bytes starting at the same offset
C10_WritesSerialized ==
  \A t1, t2 \in Threads :
    (t1 # t2 /\ pc[t1] = "io" /\ pc[t2] = "io"
       /\ loc[t1].file = loc[t2].file
       /\ loc[t1].count > 0 /\ loc[t2].count > 0) =>
      loc[t1].start # loc[t2].start

\* the file behind the descriptor of the most recent I/O handler
IoLive == get_file(io.fd) # None
IoFile == kfile[get_file(io.fd)].file
XferSum(n) == SumSeq([j \in 1 .. n |-> io.xfers[j].r])

\* C11: a sys_read or sys_write on an object at position p whose VFS calls
\* succeed transfers fragment i at offset p plus the bytes transferred for
\* the fragments before it, returns the sum of the per-fragment counts, and
\* leaves the stored position at p plus that sum
C11_FragmentsAtRunningOffset ==
  (io.op \in {"read", "write"} /\ IoLive /\ ~io.failed) =>
    /\ \A i \in 1 .. Len(io.xfers) : io.xfers[i].off = io.p0 + XferSum(i - 1)
    /\ io.ret = XferSum(Len(io.xfers))
    /\ f_pos[IoFile] = io.p0 + io.ret
C11_Witness ==
  /\ io.op = "read" /\ IoLive /\ ~io.failed
  /\ Len(io.xfers) = 2 /\ io.xfers[1].r > 0 /\ io.xfers[2].r > 0
  /\ f_pos[IoFile] = io.p0 + 2

\* C12: a sys_write of N bytes, a sys_lseek back by N from the current
\* position and a sys_read of N bytes, one after the other on one
\* descriptor: the read returns N and yields the bytes written, whatever
\* the fragments of the two buffers
C12_WriteSeekReadRoundTrip ==
  (io.rt.stage = 3 /\ ~io.failed) =>
    /\ io.ret = Len(io.rt.bytes)
    /\ io.got = io.rt.bytes
C12_Witness ==
  /\ io.rt.stage = 3 /\ ~io.failed
  /\ Len(io.rt.bytes) = 2 /\ Len(io.xfers) = 2
  /\ io.got = io.rt.bytes

\* C13: sys_lseek(fd, k, SEEK_SET) with k >= 0 on a live descriptor returns
\* k; a sys_lseek(fd, 0, SEEK_CUR) right after it returns k and leaves the
\* position at k; on a descriptor not in the table, or when the VFS seek
\* fails, sys_lseek returns -1
C13_LseekReturnsPosition ==
  io.op = "lseek" =>
    /\ (IoLive /\ ~io.failed /\ io.whence = 0 /\ io.arg >= 0) => io.ret = io.arg
    /\ (IoLive /\ ~io.failed /\ io.whence = 1 /\ io.arg = 0
          /\ io.sk.fd = io.fd /\ io.sk.k >= 0) =>
         (io.ret = io.sk.k /\ f_pos[IoFile] = io.sk.k)
    /\ (~IoLive \/ io.failed) => io.ret = -1
C13_Witness ==
  /\ io.op = "lseek" /\ IoLive /\ ~io.failed
  /\ io.whence = 1 /\ io.arg = 0 /\ io.sk.fd = io.fd /\ io.sk.k > 0
  /\ io.ret = io.sk.k

\* the entries of the vector of the most recent handler that the handler
\* is to skip: a null base, and in sys_readv a zero length
IovSkipped(i) ==
  io.iov[i].base = 0 \/ (io.op = "readv" /\ SumSeq(io.iov[i].frags) = 0)
IovKept == {i \in 1 .. Len(io.iov) : ~IovSkipped(i)}
\* the fragment lengths of the entries that are not skipped, in order
RECURSIVE KeptFrags(_)
KeptFrags(i) ==
  IF i > Len(io.iov) THEN <<>>
  ELSE (IF IovSkipped(i) THEN <<>> ELSE io.iov[i].frags) \o KeptFrags(i + 1)

\* C14: sys_readv and sys_writev skip an entry with a null base (sys_readv
\* also an entry of length zero): the VFS is called for the fragments of
\* the other entries only, in order, the call does not fail, and the
\* result is the sum of the bytes transferred for the entries not skipped
C14_NullIovecSkipped ==
  (io.op \in {"readv", "writev"} /\ IoLive /\ ~io.failed) =>
    /\ [j \in 1 .. Len(io.xfers) |-> io.xfers[j].len] = KeptFrags(1)
    /\ io.ret = XferSum(Len(io.xfers))
    /\ io.ret >= 0
C14_Witness ==
  /\ io.op = "writev" /\ IoLive /\ ~io.failed
  /\ Len(io.iov) = 2 /\ io.iov[1].base = 0 /\ io.iov[2].base # 0
  /\ io.ret > 0 /\ Len(io.xfers) = 1

\* C18: in sys_read and sys_write (and the pread, pwrite, readv, writev
\* handlers, which share the loop) on a valid descriptor, a failure of the
\* VFS read or write of a fragment makes the handler return -1
C18_VfsFailureReturnsMinusOne ==
  (io.op \in {"read", "write", "readv", "writev"} /\ IoLive /\ io.failed) =>
    io.ret = -1

\* the resolver calls of the most recent path handler
Rs == resolved.rs
PathOps == {"openat", "linkat", "unlinkat", "symlinkat", "readlinkat", "fstatat",
            "renameat", "mkdirat", "mount", "umount"}

\* C15: for an absolute path the resolver's result is the same for every
\* dir_fd, the cwd sentinel and descriptors not in the table included: it
\* makes no lookup from a descriptor and does not fail
C15_AbsolutePathIgnoresDirFd ==
  \A i \in 1 .. Len(Rs) :
    ~is_relative(Rs[i].raw) =>
      /\ Rs[i].result # PathErr
      /\ ~Rs[i].looked
      /\ \A d \in DirFdsAll, lk \in BOOLEAN :
           user_path_at(d, Rs[i].raw, lk) = Rs[i].result
C15_Witness ==
  /\ last.op = "fstatat" /\ last.ret = 0
  /\ \E i \in 1 .. Len(Rs) :
       /\ ~is_relative(Rs[i].raw)
       /\ Rs[i].fd # AT_FDCWD /\ get_file(as_usize(Rs[i].fd)) = None
       /\ Rs[i].result = Rs[i].raw

\* C16: for a relative path the resolver starts the VFS lookup at the cwd
\* when dir_fd is AT_FDCWD, at the file behind dir_fd when dir_fd is a live
\* descriptor, and otherwise fails without a VFS lookup
C16_Step ==
  \A i \in 1 .. Len(resolved'.rs) :
    LET r == resolved'.rs[i]
    IN is_relative(r.raw) =>
         IF r.fd = AT_FDCWD THEN r.looked /\ r.start = "cwd"
         ELSE IF r.fd \in Handles /\ fd_table[r.fd] # None
         THEN r.looked /\ r.start = kfile[fd_table[r.fd]].file
         ELSE ~r.looked /\ r.result = PathErr
C16_RelativeLookupStart == [][C16_Step]_vars
C16_Witness ==
  /\ last.op = "fstatat" /\ last.ret = 0
  /\ \E i \in 1 .. Len(Rs) :
       /\ is_relative(Rs[i].raw) /\ Rs[i].fd = 0
       /\ Rs[i].looked /\ Rs[i].start = "f1" /\ Rs[i].result # PathErr

\* C17: a path handler one of whose path arguments does not resolve
\* returns -1 and has no effect: no VFS operation and no write to user
\* memory, the descriptor table, the file objects and the directory as
\* they were
C17_Step ==
  (last'.op \in PathOps /\ \E i \in 1 .. Len(resolved'.rs) :
                              resolved'.rs[i].result = PathErr) =>
    /\ last'.ret = -1
    /\ last'.calls = <<>>
    /\ fd_table' = fd_table
    /\ kfile' = kfile
    /\ names' = names
C17_ResolverFailureNoEffect == [][C17_Step]_vars
C17_Witness ==
  /\ last.op = "renameat" /\ last.ret = -1 /\ last.calls = <<>>
  /\ Len(Rs) = 2 /\ Rs[1].result # PathErr /\ Rs[2].result = PathErr

\* C19: sys_openat with an open flag bit outside the recognized set,
\* sys_mount with such a mount flag bit and sys_unlinkat with a flag that is
\* not zero return -1 and invoke no VFS operation
C19_BadFlagsRejected ==
  (\/ last.op = "openat" /\ ~(resolved.flag \subseteq OpenFlagBits)
   \/ last.op = "mount" /\ ~(resolved.flag \subseteq MountFlagBits)
   \/ last.op = "unlinkat" /\ resolved.flag # {}) =>
    last.ret = -1 /\ last.calls = <<>>

LinkCalls == CallsOf(last.calls, "vfs_link")
LinkFlagsOk == resolved.flag \subseteq {"AT_SYMLINK_FOLLOW", "AT_EMPTY_PATH"}
BothResolved == Len(Rs) = 2 /\ Rs[1].result # PathErr /\ Rs[2].result # PathErr

\* C20 as stated: sys_linkat with a flag bit outside {AT_SYMLINK_FOLLOW,
\* AT_EMPTY_PATH} returns -1 without resolving a path or invoking the VFS
\* link; otherwise it resolves both paths and invokes the VFS link exactly
\* once, returning 0 exactly when both resolutions and the link succeed
C20_LinkatAlwaysLinks ==
  last.op = "linkat" =>
    IF ~LinkFlagsOk
    THEN last.ret = -1 /\ Rs = <<>> /\ last.calls = <<>>
    ELSE /\ Len(Rs) = 2
         /\ Cardinality(LinkCalls) = 1
         /\ last.ret = 0 <=> (BothResolved /\ \A i \in LinkCalls : last.calls[i].ok)

\* C20 amended: sys_linkat with a flag bit outside {AT_SYMLINK_FOLLOW,
\* AT_EMPTY_PATH} returns -1 without resolving a path or invoking the VFS
\* link; otherwise it resolves the old path, the new path only if the old
\* one resolved, and invokes the VFS link exactly once if both resolved and
\* not at all if not, returning 0 when both resolutions and the link
\* succeed and -1 when not
C20_LinkatFlagsThenLink ==
  last.op = "linkat" =>
    IF ~LinkFlagsOk
    THEN last.ret = -1 /\ Rs = <<>> /\ last.calls = <<>>
    ELSE /\ Len(Rs) \in {1, 2}
         /\ Len(Rs) = 2 <=> Rs[1].result # PathErr
         /\ Cardinality(LinkCalls) = (IF BothResolved THEN 1 ELSE 0)
         /\ Len(last.calls) = Cardinality(LinkCalls)
         /\ last.ret = (IF BothResolved /\ \A i \in LinkCalls : last.calls[i].ok
                         THEN 0 ELSE -1)
C20_Witness ==
  /\ last.op = "linkat" /\ last.ret = 0
  /\ resolved.flag = {"AT_SYMLINK_FOLLOW", "AT_EMPTY_PATH"}
  /\ Cardinality(LinkCalls) = 1
  /\ names["/b"] = names["/a"] /\ names["/b"] # NoFile

\* C21: a chdir replaces the stored cwd dentry and cwd mount atomically: no
\* getcwd or path resolution of the process sees a dentry together with a
\* mount that is not the mount of that dentry; a chdir that fails returns -1
\* and leaves both unchanged
C21_ChdirAtomic ==
  /\ io.op = "getcwd" => io.seen.cmnt = CwdTree[io.seen.cwd].mnt
  /\ (last.op = "chdir" /\ last.ret = -1 /\ \A t \in Threads : pc[t] = "idle")
       => fs_info.cmnt = CwdTree[fs_info.cwd].mnt

\* C22: after a successful chdir to an absolute directory path P, a getcwd
\* with a buffer of at least |P| bytes stores exactly the bytes of P, in
\* order across the fragments, and returns the address of the user buffer
C22_GetcwdStoresPath ==
  (/\ io.op = "getcwd" /\ io.quiet /\ io.addr # 0
   /\ last.op = "chdir" /\ last.ret = 0
   /\ io.len >= Len(PathBytes(last.path)))
    => /\ Flat(io.got) = PathBytes(last.path)
       /\ io.ret = io.addr

\* C23: sys_mount and sys_umount are stubs: they make no VFS call and leave
\* the directory tree, the file objects and the descriptor table as they
\* were, and with recognized flags and empty data they return 0 when every
\* path argument resolved and -1 when one did not
C23_Step ==
  last'.op \in {"mount", "umount"} =>
    /\ last'.calls = <<>>
    /\ fd_table' = fd_table
    /\ kfile' = kfile
    /\ names' = names
    /\ (resolved'.data_empty /\ FromBitsSome(resolved'.flag, MountFlagBits))
         => last'.ret = IF \A i \in 1 .. Len(resolved'.rs) :
                               resolved'.rs[i].result # PathErr
                        THEN 0 ELSE -1
C23_MountUmountStubs == [][C23_Step]_vars
C23_Witness ==
  /\ last.op = "mount" /\ last.ret = 0 /\ resolved.data_empty
  /\ Len(Rs) = 2 /\ Rs[2].result = "/b" /\ names["/b"] = NoFile

\* C30: sys_linkat resolves its paths with the lookup flags derived from its
\* flag argument: READ_LINK when AT_SYMLINK_FOLLOW is set, EMPTY when
\* AT_EMPTY_PATH is set, the empty set when neither is
C30_LinkatLookupFlags ==
  last.op = "linkat" =>
    \A i \in 1 .. Len(Rs) :
      Rs[i].flag =
        (IF "AT_SYMLINK_FOLLOW" \in resolved.flag THEN {"READ_LINK"} ELSE {})
        \cup (IF "AT_EMPTY_PATH" \in resolved.flag THEN {"EMPTY"} ELSE {})

\* C24: a load or store fault for which the region table answers a tuple
\* issues exactly one VFS read, on the tuple's file, of the buffer's whole
\* length, at the tuple's offset, when the tuple has a backing file, and no
\* read when it has none; a store fault for which the region table answers
\* no tuple issues no read; each of these returns success
C24_FaultReadsBackingFile ==
  /\ (fault.trap \in {"LoadPageFault", "StorePageFault"} /\ fault.info = "Some")
       => /\ fault.ret = "Ok"
          /\ fault.reads = IF fault.file # NoFile
                           THEN <<[file |-> fault.file, len |-> fault.len,
                                   offset |-> fault.offset]>>
                           ELSE <<>>
  /\ (fault.trap = "StorePageFault" /\ fault.info = "None")
       => fault.ret = "Ok" /\ fault.reads = <<>>
C24_Witness ==
  /\ fault.trap = "LoadPageFault" /\ fault.info = "Some"
  /\ fault.file = "f1" /\ fault.offset = 1 /\ Len(fault.reads) = 1
  /\ f_pos["f1"] > 0

\* C25: a load or store fault returns an error exactly when the region
\* table's resolution failed, and then issues no VFS read; a trap of any
\* other kind returns an error and the region table is not consulted
C25_FaultErrorOnResolutionFailure ==
  /\ fault.trap \in {"LoadPageFault", "StorePageFault"}
       => /\ fault.consulted
          /\ fault.ret = "Err" <=> fault.info = "Err"
          /\ fault.info = "Err" => fault.reads = <<>>
  /\ fault.trap = "InstructionPageFault"
       => fault.ret = "Err" /\ ~fault.consulted /\ fault.reads = <<>>
C25_Witness ==
  /\ fault.trap = "StorePageFault" /\ fault.info = "Err"
  /\ fault.ret = "Err" /\ fault.reads = <<>>
  /\ \E f \in Files : f_pos[f] > 0

XattrOps == {"setxattr", "lsetxattr", "fsetxattr", "getxattr", "lgetxattr",
             "fgetxattr", "listxattr", "llistxattr", "flistxattr"}

\* C26: an xattr handler called with a zero-length user buffer does not
\* fault: it passes an empty slice to the VFS and returns the VFS result, or
\* -1 when the VFS fails or the descriptor is not in the table
C26_XattrEmptyBufferSafe ==
  (last.op \in XattrOps /\ last.size = 0 /\ last.flag = 0) =>
    /\ last.ret # Panic
    /\ last.calls = <<>> => last.ret = -1 /\ last.fd # None
    /\ last.calls # <<>> =>
         /\ last.calls[1].arg.slice = 0
         /\ last.ret = IF last.calls[1].ok THEN last.calls[1].arg.res ELSE -1

\* C27: a sys_statfs that follows a sys_statfs on the same path returns the
\* same value and writes the same record to user memory, and no sys_statfs
\* changes the descriptor table, the file objects or the file positions
C27_Step ==
  last'.op = "statfs" =>
    /\ fd_table' = fd_table /\ kfile' = kfile /\ f_pos' = f_pos
    /\ (last.op = "statfs" /\ last.path = last'.path)
         => last'.ret = last.ret /\ last'.out = last.out
C28_FileLikeAccessors ==
  last.op \in {"get_nf", "get_socket"} =>
    IF last.arg.tag = (IF last.op = "get_nf" THEN "NormalFile" ELSE "Socket")
    THEN last.out = [kind |-> "Some", obj |-> last.arg.obj] /\ last.ret = 0
    ELSE last.out.kind = "panic" /\ last.ret = Panic
C28_Witness ==
  /\ last.op = "get_nf" /\ last.arg.tag = "Socket" /\ last.ret = Panic

\* C29: SOUND_DEVICE is empty until an init_sound call takes effect, then
\* holds the device of the first call that took effect, and no later call
\* replaces it
C29_Step ==
  /\ sound.first = None => sound.value = None
  /\ sound'.value # None =>
       sound'.status = "Complete" /\ sound'.value = sound'.first
  /\ sound.value # None => sound'.value = sound.value
C29_SoundInitOnce == [][C29_Step]_vars
C29_Witness ==
  /\ sound.status = "Complete" /\ sound.value = 1
  /\ \E t \in Threads : sound.call[t].pc = "idle" /\ sound.call[t].dev = 2

\* C31: a sys_openat that succeeds adds one entry to the descriptor table,
\* under the handle it returns, holding a new object that wraps the file the
\* VFS opened, and leaves every other entry as it was; one whose path
\* resolution, VFS open or table insertion fails returns -1 and leaves the
\* table as it was
C31_Step ==
  last'.op = "openat" =>
    LET r == last'.ret
        failed == \/ last'.path = PathErr
                  \/ \E i \in 1 .. Len(last'.calls) : ~last'.calls[i].ok
                  \/ FreeHandles = {}
    IN IF ~failed
       THEN /\ r \in Handles /\ fd_table[r] = None /\ fd_table'[r] # None
            /\ kfile'[fd_table'[r]] = KFileNew(names[Canon(last'.path)])
            /\ names[Canon(last'.path)] # NoFile
            /\ \A h \in Handles \ {r} :
                 /\ fd_table'[h] # fd_table'[r]
                 /\ (fd_table'[h] = None) = (fd_table[h] = None)
                 /\ fd_table[h] # None =>
                      /\ kfile'[fd_table'[h]] = kfile[fd_table[h]]
                      /\ \A g \in Handles \ {r} :
                           (fd_table'[g] = fd_table'[h])
                             = (fd_table[g] = fd_table[h])
       ELSE r = -1 /\ fd_table' = fd_table /\ kfile' = kfile
C31_OpenatAddsOneEntry == [][C31_Step]_vars
C31_Witness ==
  /\ last.op = "openat" /\ last.ret = 1
  /\ fd_table[0] # None /\ fd_table[1] # None /\ fd_table[0] # fd_table[1]
  /\ kfile[fd_table[1]].file = kfile[fd_table[0]].file

\* C32: a sys_unlinkat that returned 0, interleaved with a sys_close or a
\* sys_openat of the same file in another thread, is not premature (no VFS
\* unlink of a path while a descriptor references its file) and not lost
\* (once no handler is running and no descriptor references the file, the
\* entry has been unlinked)
C32_Step ==
  /\ \A i \in UnlinkCallsIn(last'.calls) :
       (last' # last /\ last'.calls[i].ok) =>
         ~\E h \in Handles :
            /\ fd_table'[h] # None
            /\ kfile'[fd_table'[h]].file = names[Canon(last'.calls[i].arg)]
  /\ (/\ last'.op = "unlinkat" /\ last'.ret = 0
      /\ \A t \in Threads : pc'[t] = "idle")
       => \/ names'[Canon(last'.path)] = NoFile
          \/ \E h \in Handles :
               /\ fd_table'[h] # None
               /\ kfile'[fd_table'[h]].file = names'[Canon(last'.path)]
C32_UnlinkNeitherLostNorPremature == [][C32_Step]_vars

\* C33: a handler that opens a file through the VFS only to probe it
\* (sys_unlinkat, a sys_chdir that rejects its target) or that fails to
\* register it (a sys_openat that returns -1) closes it through the VFS
\* before it returns: its VFS opens that succeeded are as many as its VFS
\* closes
C33_VfsHandlesBalanced ==
  (\/ last.op = "unlinkat"
   \/ last.op \in {"openat", "chdir"} /\ last.ret = -1)
    => Cardinality({i \in CallsOf(last.calls, "vfs_open_file") :
                      last.calls[i].ok})
         = Cardinality(CallsOf(last.calls, "vfs_close_file"))

====
